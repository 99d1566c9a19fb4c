----------------------------- MODULE PoolProofs ------------------------------
(***************************************************************************)
(* Theorems about the two pools.  ScopePool, for every number of callers,  *)
(* workers, jobs and calls: types, borrow safety, no lost wakeup, and the  *)
(* refinement of ForkJoin.  StorePool, for every set of threads and        *)
(* handles, as long as at most one thread uses `with pool as store` (the   *)
(* runs show that two such threads break both): types, and handles that    *)
(* are neither shared nor lost.                                            *)
(***************************************************************************)
EXTENDS ScopePool, StorePool, FiniteSetTheorems, SequenceTheorems, TLAPS

-----------------------------------------------------------------------------
(* The resident worker pool.                                               *)

InScope(c) == cpc[c] \in {"notify", "await", "blocked", "drain"}

\* A job that has been taken and not yet counted.
InFlight(w) == wpc[w] \in {"run", "ran"}

\* A queued job belongs to an open call, has not run, and is queued once.
QueueInv ==
  \A k \in 1..Len(queue) :
    /\ Current(queue[k])
    /\ InPool(queue[k].caller)
    /\ queue[k].idx \in 1..njobs[queue[k].caller]
    /\ queue[k].idx \notin ran[queue[k].caller]
    /\ \A l \in 1..Len(queue) : l # k => queue[l] # queue[k]
    /\ \A w \in Workers : wpc[w] = "run" => wjob[w] # queue[k]

\* So does a job in flight; only a job whose closure has ended is in ran, and
\* no job in flight has been counted.
FlightInv ==
  \A w \in Workers : InFlight(w) =>
    /\ Current(wjob[w])
    /\ InPool(wjob[w].caller)
    /\ wjob[w].idx \in 1..njobs[wjob[w].caller]
    /\ wjob[w].idx \notin counted[wjob[w].caller]
    /\ wpc[w] = "run" <=> wjob[w].idx \notin ran[wjob[w].caller]
    /\ \A v \in Workers : v # w /\ InFlight(v) => wjob[v] # wjob[w]

\* The completion count counts the counted jobs; it is n once c goes on.
CountInv ==
  \A c \in Callers : InScope(c) =>
    /\ counted[c] \subseteq ran[c]
    /\ ran[c] \subseteq 1..njobs[c]
    /\ done[c] = Cardinality(counted[c])
    /\ cpc[c] = "drain" => counted[c] = 1..njobs[c]

\* In the fallback the threads are the jobs that have not run.
ThreadInv ==
  \A c \in Callers : cpc[c] = "join" =>
    /\ ran[c] \subseteq 1..njobs[c]
    /\ threads[c] = (1..njobs[c]) \ ran[c]

\* Outside, every job of the last call has run.
OutInv == \A c \in Callers : cpc[c] = "out" => ran[c] = 1..njobs[c]

IInv == TypeOK /\ QueueInv /\ FlightInv /\ CountInv /\ ThreadInv /\ OutInv

-----------------------------------------------------------------------------
(* Types.                                                                  *)

LEMMA NoJobType == NoJob \in Job
  BY ConstantsAssumption DEF NoJob, Job

\* The jobs a pooled call appends are jobs of its next call, one per index.
LEMMA WrappedType ==
  ASSUME TypeOK, NEW c \in Callers, NEW n \in 1..MaxJobs
  PROVE  /\ Wrapped(c, n) \in Seq(Job)
         /\ Len(Wrapped(c, n)) = n
         /\ \A i \in 1..n : Wrapped(c, n)[i] = [caller |-> c, call |-> call[c] + 1, idx |-> i]
  BY ConstantsAssumption DEF Wrapped, Job, TypeOK

LEMMA TypeInit == Init => TypeOK
  BY NoJobType DEF Init, TypeOK

\* What a new call writes has its type.
LEMMA BeginCallType ==
  ASSUME TypeOK, NEW c \in Callers, NEW n \in Nat, BeginCall(c, n)
  PROVE  /\ call' \in [Callers -> Nat]
         /\ njobs' \in [Callers -> Nat]
         /\ done' \in [Callers -> Nat]
         /\ panics' \in [Callers -> Seq(Nat)]
         /\ ran' \in [Callers -> SUBSET Nat]
         /\ counted' \in [Callers -> SUBSET Nat]
         /\ failed' \in [Callers -> SUBSET Nat]
         /\ wpc' = wpc /\ wjob' = wjob /\ werr' = werr /\ ready' = ready
<1>1. panics' \in [Callers -> Seq(Nat)]
  BY DEF TypeOK, BeginCall
<1> QED
  BY <1>1 DEF TypeOK, BeginCall, workerVars

\* Replacing the entry of one call keeps a function's type.
LEMMA ForCallType ==
  ASSUME TypeOK, NEW S, NEW f \in [Callers -> S], NEW j \in Job, NEW v \in S
  PROVE  ForCall(f, j, v) \in [Callers -> S]
  BY DEF ForCall, Job

LEMMA TypeStep == TypeOK /\ [Next]_vars => TypeOK'
<1> SUFFICES ASSUME TypeOK, [Next]_vars PROVE TypeOK'
  OBVIOUS
<1> USE ConstantsAssumption, NoJobType
<1>1. ASSUME NEW c \in Callers, ScopeEmpty(c) PROVE TypeOK'
  BY <1>1, BeginCallType, 0 \in Nat DEF TypeOK, ScopeEmpty
<1>2. ASSUME NEW c \in Callers, NEW n \in 1..MaxJobs, ScopeThreads(c, n) PROVE TypeOK'
  <2>1. threads' \in [Callers -> SUBSET Nat]
    BY <1>2, SMTT(30) DEF TypeOK, ScopeThreads
  <2> QED
    BY <1>2, <2>1, BeginCallType, n \in Nat DEF TypeOK, ScopeThreads
<1>3. ASSUME NEW c \in Callers, NEW n \in 1..MaxJobs, ScopePooled(c, n) PROVE TypeOK'
  <2>1. queue' \in Seq(Job)
    <3>1. queue \in Seq(Job) /\ Wrapped(c, n) \in Seq(Job)
      BY WrappedType DEF TypeOK
    <3>2. queue' = queue \o Wrapped(c, n)
      BY <1>3 DEF ScopePooled
    <3> QED
      BY <3>1, <3>2
  <2>2. toNotify' \in [Callers -> Nat]
    BY <1>3 DEF TypeOK, ScopePooled
  <2>3. \A d \in Callers : cpc'[d] = "notify" => toNotify'[d] # 0
    <3>1. n # 0
      OBVIOUS
    <3> QED
      BY <1>3, <3>1 DEF TypeOK, ScopePooled
  <2> QED
    BY <1>3, <2>1, <2>2, <2>3, BeginCallType, n \in Nat DEF TypeOK, ScopePooled
<1>4. ASSUME NEW c \in Callers, NotifyOne(c) PROVE TypeOK'
  <2>1. wpc' \in [Workers -> {"idle", "waiting", "run", "ran", "record"}]
    <3>1. wpc' = wpc \/ \E w \in Workers : wpc' = [wpc EXCEPT ![w] = "idle"]
      BY <1>4 DEF NotifyOne, WakeOne
    <3> QED
      BY <3>1 DEF TypeOK
  <2>2. toNotify' \in [Callers -> Nat]
    BY <1>4 DEF TypeOK, NotifyOne
  <2>3. cpc' \in [Callers -> {"out", "notify", "await", "blocked", "drain", "join"}]
    BY <1>4 DEF TypeOK, NotifyOne
  <2>4. \A d \in Callers : cpc'[d] = "notify" => toNotify'[d] # 0
    BY <1>4, SMTT(30) DEF TypeOK, NotifyOne
  <2> QED
    BY <1>4, <2>1, <2>2, <2>3, <2>4 DEF TypeOK, NotifyOne, scopeVars
<1>5. ASSUME NEW c \in Callers, AwaitDone(c) \/ SpuriousCaller(c) PROVE TypeOK'
  BY <1>5 DEF TypeOK, AwaitDone, SpuriousCaller, workerVars, scopeVars
<1>6. ASSUME NEW c \in Callers, DrainPanics(c) PROVE TypeOK'
  BY <1>6, SMTT(30) DEF TypeOK, DrainPanics, workerVars
<1>7. ASSUME NEW c \in Callers, NEW i \in threads[c], NEW err \in BOOLEAN,
             ThreadRun(c, i, err)
      PROVE  TypeOK'
  BY <1>7, ZenonT(40) DEF TypeOK, ThreadRun, workerVars
<1>8. ASSUME NEW c \in Callers, ThreadsJoined(c) PROVE TypeOK'
  BY <1>8 DEF TypeOK, ThreadsJoined, workerVars, scopeVars
<1>9. ASSUME NEW w \in Workers, PopJob(w) PROVE TypeOK'
  BY <1>9, SMTT(30) DEF TypeOK, PopJob, callVars, scopeVars
<1>10. ASSUME NEW w \in Workers, WorkerWait(w) \/ SpuriousWorker(w) PROVE TypeOK'
  BY <1>10 DEF TypeOK, WorkerWait, SpuriousWorker, callVars, scopeVars
<1>11. ASSUME NEW w \in Workers, NEW err \in BOOLEAN, RunJob(w, err) PROVE TypeOK'
  <2>1. wjob[w] \in Job /\ wjob[w].caller \in Callers /\ wjob[w].idx \in Nat
    BY DEF TypeOK, Job
  <2>2. ran' \in [Callers -> SUBSET Nat]
    <3>1. ran \in [Callers -> SUBSET Nat]
          /\ ran[wjob[w].caller] \union {wjob[w].idx} \in SUBSET Nat
      BY <2>1 DEF TypeOK
    <3> QED
      BY <1>11, <2>1, <3>1, ForCallType DEF RunJob
  <2>3. failed' \in [Callers -> SUBSET Nat]
    <3> DEFINE new == IF err THEN failed[wjob[w].caller] \union {wjob[w].idx}
                      ELSE failed[wjob[w].caller]
    <3>1. failed \in [Callers -> SUBSET Nat] /\ new \in SUBSET Nat
      BY <2>1 DEF TypeOK
    <3>2. failed' = ForCall(failed, wjob[w], new)
      BY <1>11 DEF RunJob
    <3> HIDE DEF new
    <3> QED
      BY <2>1, <3>1, <3>2, ForCallType
  <2> QED
    BY <1>11, <2>2, <2>3 DEF TypeOK, RunJob, callVars
<1>12. ASSUME NEW w \in Workers, CountDone(w) PROVE TypeOK'
  <2>1. wjob[w] \in Job /\ wjob[w].caller \in Callers /\ wjob[w].idx \in Nat
    BY DEF TypeOK, Job
  <2>2. done' \in [Callers -> Nat] /\ counted' \in [Callers -> SUBSET Nat]
    <3>1. done[wjob[w].caller] + 1 \in Nat
      BY <2>1 DEF TypeOK
    <3>2. counted[wjob[w].caller] \union {wjob[w].idx} \in SUBSET Nat
      BY <2>1 DEF TypeOK
    <3>3. done \in [Callers -> Nat] /\ counted \in [Callers -> SUBSET Nat]
      BY DEF TypeOK
    <3> QED
      BY <1>12, <2>1, <3>1, <3>2, <3>3, ForCallType DEF CountDone
  <2>3. cpc' \in [Callers -> {"out", "notify", "await", "blocked", "drain", "join"}]
    <3> DEFINE PC == {"out", "notify", "await", "blocked", "drain", "join"}
    <3>1. (IF cpc[wjob[w].caller] = "blocked" THEN "await" ELSE cpc[wjob[w].caller]) \in PC
      BY <2>1 DEF TypeOK
    <3>2. cpc \in [Callers -> PC]
      BY DEF TypeOK
    <3> HIDE DEF PC
    <3>3. cpc' \in [Callers -> PC]
      BY <1>12, <2>1, <3>1, <3>2, ForCallType DEF CountDone
    <3> QED
      BY <3>3 DEF PC
  <2>4. \A c \in Callers : cpc'[c] = "notify" => toNotify'[c] # 0
    BY <1>12, <2>1 DEF TypeOK, CountDone, ForCall
  <2> QED
    BY <1>12, <2>2, <2>3, <2>4 DEF TypeOK, CountDone
<1>13. ASSUME NEW w \in Workers, RecordPanic(w) PROVE TypeOK'
  <2>1. wjob[w] \in Job /\ wjob[w].caller \in Callers /\ wjob[w].idx \in Nat
    BY DEF TypeOK, Job
  <2>2. panics' \in [Callers -> Seq(Nat)]
    <3>1. Append(panics[wjob[w].caller], wjob[w].idx) \in Seq(Nat)
      BY <2>1 DEF TypeOK
    <3>2. panics \in [Callers -> Seq(Nat)]
      BY DEF TypeOK
    <3> QED
      BY <1>13, <2>1, <3>1, <3>2, ForCallType DEF RecordPanic
  <2> QED
    BY <1>13, <2>2 DEF TypeOK, RecordPanic, callVars
<1>14. CASE UNCHANGED vars
  BY <1>14 DEF TypeOK, vars, workerVars, callVars, scopeVars
<1> QED
  BY <1>1, <1>2, <1>3, <1>4, <1>5, <1>6, <1>7, <1>8, <1>9, <1>10, <1>11, <1>12,
     <1>13, <1>14 DEF Next, CallerStep, WorkerStep

\* Every variable keeps its type, for every number of callers, workers and jobs.
THEOREM TypeCorrect == Spec => []TypeOK
  BY TypeInit, TypeStep, PTL DEF Spec

-----------------------------------------------------------------------------
(* The inductive invariant.                                                *)

LEMMA JobFields ==
  ASSUME TypeOK
  PROVE  /\ \A k \in 1..Len(queue) : /\ queue[k] \in Job
                                     /\ queue[k].caller \in Callers
                                     /\ queue[k].idx \in Nat
         /\ \A w \in Workers : /\ wjob[w] \in Job
                               /\ wjob[w].caller \in Callers
                               /\ wjob[w].idx \in Nat
<1>1. \A k \in 1..Len(queue) : queue[k] \in Job
  BY DEF TypeOK
<1>2. \A w \in Workers : wjob[w] \in Job
  BY DEF TypeOK
<1>3. \A j \in Job : j.caller \in Callers /\ j.idx \in Nat
  BY DEF Job
<1> QED
  BY <1>1, <1>2, <1>3

LEMMA InvInit == Init => IInv
<1> SUFFICES ASSUME Init PROVE IInv
  OBVIOUS
<1>1. TypeOK
  BY TypeInit
<1>2. QueueInv /\ FlightInv
  BY DEF Init, QueueInv, FlightInv, InFlight
<1>3. CountInv /\ ThreadInv /\ OutInv
  BY DEF Init, CountInv, ThreadInv, OutInv, InScope
<1> QED
  BY <1>1, <1>2, <1>3 DEF IInv

\* Opening a call disturbs no job of another call: none belongs to c.
LEMMA BeginFrame ==
  ASSUME IInv, NEW c \in Callers, NEW n \in Nat, BeginCall(c, n)
  PROVE  /\ \A k \in 1..Len(queue) :
              LET j == queue[k]
              IN /\ j.caller # c
                 /\ call'[j.caller] = call[j.caller]
                 /\ njobs'[j.caller] = njobs[j.caller]
                 /\ ran'[j.caller] = ran[j.caller]
         /\ \A w \in Workers : InFlight(w) =>
              LET j == wjob[w]
              IN /\ j.caller # c
                 /\ call'[j.caller] = call[j.caller]
                 /\ njobs'[j.caller] = njobs[j.caller]
                 /\ ran'[j.caller] = ran[j.caller]
                 /\ counted'[j.caller] = counted[j.caller]
         /\ \A d \in Callers \ {c} :
              /\ njobs'[d] = njobs[d] /\ ran'[d] = ran[d] /\ counted'[d] = counted[d]
              /\ done'[d] = done[d]
         /\ call'[c] = call[c] + 1 /\ njobs'[c] = n /\ done'[c] = 0
         /\ ran'[c] = {} /\ counted'[c] = {}
<1>1. cpc[c] = "out"
  BY DEF BeginCall
<1>2. \A k \in 1..Len(queue) : queue[k].caller \in Callers /\ queue[k].caller # c
  BY <1>1, JobFields DEF IInv, QueueInv, InPool
<1>3. \A w \in Workers : InFlight(w) => wjob[w].caller \in Callers /\ wjob[w].caller # c
  BY <1>1, JobFields DEF IInv, FlightInv, InPool
<1> QED
  BY <1>2, <1>3 DEF IInv, TypeOK, BeginCall

LEMMA EmptyStep ==
  ASSUME IInv, NEW c \in Callers, ScopeEmpty(c)
  PROVE  QueueInv' /\ FlightInv' /\ CountInv' /\ ThreadInv' /\ OutInv'
<1>1. BeginCall(c, 0) /\ 0 \in Nat
  BY DEF ScopeEmpty
<1>2. UNCHANGED <<queue, cpc, threads, wpc, wjob>>
  BY DEF ScopeEmpty, BeginCall, workerVars
<1>3. cpc[c] = "out"
  BY DEF ScopeEmpty, BeginCall
<1>4. QueueInv'
  BY <1>1, <1>2, BeginFrame DEF IInv, QueueInv, Current, InPool
<1>5. FlightInv'
  BY <1>1, <1>2, BeginFrame DEF IInv, FlightInv, InFlight, Current, InPool
<1>6. CountInv'
  BY <1>1, <1>2, <1>3, BeginFrame DEF IInv, CountInv, InScope
<1>7. ThreadInv'
  BY <1>1, <1>2, <1>3, BeginFrame DEF IInv, ThreadInv
<1>8. OutInv'
  <2>1. ran'[c] = {} /\ njobs'[c] = 0
    BY <1>1, BeginFrame
  <2>2. ran'[c] = 1..njobs'[c]
    BY <2>1
  <2>3. \A d \in Callers \ {c} : cpc'[d] = "out" => ran'[d] = 1..njobs'[d]
    BY <1>1, <1>2, BeginFrame DEF IInv, OutInv
  <2> QED
    BY <2>2, <2>3 DEF OutInv
<1> QED
  BY <1>4, <1>5, <1>6, <1>7, <1>8

LEMMA ThreadsStep ==
  ASSUME IInv, NEW c \in Callers, NEW n \in 1..MaxJobs, ScopeThreads(c, n)
  PROVE  QueueInv' /\ FlightInv' /\ CountInv' /\ ThreadInv' /\ OutInv'
<1>1. BeginCall(c, n) /\ n \in Nat
  BY ConstantsAssumption DEF ScopeThreads
<1>2. UNCHANGED <<queue, wpc, wjob>>
  BY DEF ScopeThreads, BeginCall, workerVars
<1>3. /\ cpc' = [cpc EXCEPT ![c] = "join"]
      /\ threads' = [threads EXCEPT ![c] = 1..n]
      /\ cpc \in [Callers -> {"out", "notify", "await", "blocked", "drain", "join"}]
      /\ threads \in [Callers -> SUBSET Nat]
  BY DEF ScopeThreads, IInv, TypeOK
<1>4. QueueInv'
  BY <1>1, <1>2, <1>3, BeginFrame DEF IInv, QueueInv, Current, InPool
<1>5. FlightInv'
  BY <1>1, <1>2, <1>3, BeginFrame DEF IInv, FlightInv, InFlight, Current, InPool
<1>6. CountInv'
  <2> SUFFICES ASSUME NEW d \in Callers, InScope(d)'
               PROVE  (/\ counted[d] \subseteq ran[d]
                       /\ ran[d] \subseteq 1..njobs[d]
                       /\ done[d] = Cardinality(counted[d])
                       /\ cpc[d] = "drain" => counted[d] = 1..njobs[d])'
    BY DEF CountInv
  <2>1. d # c /\ InScope(d) /\ cpc'[d] = cpc[d]
    BY <1>3 DEF InScope
  <2> QED
    BY <1>1, <2>1, BeginFrame DEF IInv, CountInv
<1>7. ThreadInv'
  <2>1. ran'[c] = {} /\ threads'[c] = (1..njobs'[c]) \ ran'[c]
    BY <1>1, <1>3, BeginFrame
  <2>2. ASSUME NEW d \in Callers, d # c, cpc'[d] = "join"
        PROVE  ran'[d] \subseteq 1..njobs'[d] /\ threads'[d] = (1..njobs'[d]) \ ran'[d]
    BY <1>1, <1>3, <2>2, BeginFrame DEF IInv, ThreadInv
  <2> QED
    BY <2>1, <2>2 DEF ThreadInv
<1>8. OutInv'
  BY <1>1, <1>3, BeginFrame DEF IInv, OutInv
<1> QED
  BY <1>4, <1>5, <1>6, <1>7, <1>8

LEMMA PooledStep ==
  ASSUME IInv, NEW c \in Callers, NEW n \in 1..MaxJobs, ScopePooled(c, n)
  PROVE  QueueInv' /\ FlightInv' /\ CountInv' /\ ThreadInv' /\ OutInv'
<1> DEFINE q == Len(queue)
           W == Wrapped(c, n)
<1>1. BeginCall(c, n) /\ n \in Nat
  BY ConstantsAssumption DEF ScopePooled
<1>2. UNCHANGED <<threads, wpc, wjob>>
  BY DEF ScopePooled, BeginCall, workerVars
<1>3. /\ cpc' = [cpc EXCEPT ![c] = "notify"]
      /\ cpc \in [Callers -> {"out", "notify", "await", "blocked", "drain", "join"}]
      /\ cpc[c] = "out"
  BY DEF ScopePooled, BeginCall, IInv, TypeOK
<1>4. /\ queue \in Seq(Job) /\ W \in Seq(Job) /\ Len(W) = n
      /\ queue' = queue \o W
      /\ \A i \in 1..n : W[i] = [caller |-> c, call |-> call[c] + 1, idx |-> i]
  BY WrappedType DEF IInv, TypeOK, ScopePooled
<1>5. /\ Len(queue') = q + n /\ q \in Nat
      /\ \A k \in 1..q : queue'[k] = queue[k]
      /\ \A k \in 1..Len(queue') : k \notin 1..q =>
           k - q \in 1..n /\ queue'[k] = [caller |-> c, call |-> call[c] + 1, idx |-> k - q]
  <2> HIDE DEF W
  <2>1. q \in Nat
    BY <1>4, LenProperties
  <2>2. /\ Len(queue') = q + n
        /\ \A k \in 1..(q + n) : queue'[k] = IF k <= q THEN queue[k] ELSE W[k - q]
    BY <1>4, ConcatProperties
  <2> QED
    BY <1>1, <1>4, <2>1, <2>2
<1> HIDE DEF q, W
<1>6. QueueInv'
  <2> SUFFICES ASSUME NEW k \in 1..Len(queue')
               PROVE  /\ Current(queue[k])'
                      /\ InPool(queue[k].caller)'
                      /\ (queue[k].idx \in 1..njobs[queue[k].caller])'
                      /\ (queue[k].idx \notin ran[queue[k].caller])'
                      /\ \A l \in 1..Len(queue') : l # k => queue'[l] # queue'[k]
                      /\ \A w \in Workers : wpc'[w] = "run" => wjob'[w] # queue'[k]
    BY DEF QueueInv
  <2>1. CASE k \in 1..q
    <3>1. queue'[k] = queue[k] /\ k \in 1..Len(queue) /\ queue[k].caller # c
      BY <1>1, <1>5, <2>1, BeginFrame DEF q
    <3>2. /\ Current(queue[k])' /\ InPool(queue[k].caller)'
          /\ (queue[k].idx \in 1..njobs[queue[k].caller])'
          /\ (queue[k].idx \notin ran[queue[k].caller])'
      <4>1. /\ Current(queue[k]) /\ InPool(queue[k].caller)
            /\ queue[k].idx \in 1..njobs[queue[k].caller]
            /\ queue[k].idx \notin ran[queue[k].caller]
        BY <3>1 DEF IInv, QueueInv
      <4>2. /\ call'[queue[k].caller] = call[queue[k].caller]
            /\ njobs'[queue[k].caller] = njobs[queue[k].caller]
            /\ ran'[queue[k].caller] = ran[queue[k].caller]
        BY <1>1, <3>1, BeginFrame
      <4>3. cpc'[queue[k].caller] = cpc[queue[k].caller]
        BY <1>3, <3>1
      <4> QED
        BY <3>1, <4>1, <4>2, <4>3 DEF Current, InPool
    <3>3. ASSUME NEW l \in 1..Len(queue'), l # k PROVE queue'[l] # queue'[k]
      <4>1. CASE l \in 1..q
        BY <1>5, <3>1, <3>3, <4>1 DEF IInv, QueueInv, q
      <4>2. CASE l \notin 1..q
        BY <1>5, <3>1, <4>2
      <4> QED
        BY <4>1, <4>2
    <3>4. \A w \in Workers : wpc'[w] = "run" => wjob'[w] # queue'[k]
      BY <1>2, <3>1 DEF IInv, QueueInv
    <3> QED
      BY <3>2, <3>3, <3>4
  <2>2. CASE k \notin 1..q
    <3>1. /\ k - q \in 1..n
          /\ queue'[k] = [caller |-> c, call |-> call[c] + 1, idx |-> k - q]
      BY <1>5, <2>2
    <3>2. /\ Current(queue[k])' /\ InPool(queue[k].caller)'
          /\ (queue[k].idx \in 1..njobs[queue[k].caller])'
          /\ (queue[k].idx \notin ran[queue[k].caller])'
      BY <1>1, <1>3, <3>1, BeginFrame DEF Current, InPool
    <3>3. ASSUME NEW l \in 1..Len(queue'), l # k PROVE queue'[l] # queue'[k]
      <4>1. CASE l \in 1..q
        BY <1>1, <1>5, <3>1, <4>1, BeginFrame DEF q
      <4>2. CASE l \notin 1..q
        BY <1>5, <3>1, <3>3, <4>2
      <4> QED
        BY <4>1, <4>2
    <3>4. \A w \in Workers : wpc'[w] = "run" => wjob'[w] # queue'[k]
      BY <1>1, <1>2, <3>1, BeginFrame DEF InFlight
    <3> QED
      BY <3>2, <3>3, <3>4
  <2> QED
    BY <2>1, <2>2
<1>7. FlightInv'
  BY <1>1, <1>2, <1>3, BeginFrame DEF IInv, FlightInv, InFlight, Current, InPool
<1>8. CountInv'
  <2> SUFFICES ASSUME NEW d \in Callers, InScope(d)'
               PROVE  (/\ counted[d] \subseteq ran[d]
                       /\ ran[d] \subseteq 1..njobs[d]
                       /\ done[d] = Cardinality(counted[d])
                       /\ cpc[d] = "drain" => counted[d] = 1..njobs[d])'
    BY DEF CountInv
  <2>1. CASE d = c
    BY <1>1, <1>3, <2>1, BeginFrame, FS_EmptySet, ZenonT(40)
  <2>2. CASE d # c
    <3>1. InScope(d) /\ cpc'[d] = cpc[d]
      BY <1>3, <2>2 DEF InScope
    <3> QED
      BY <1>1, <2>2, <3>1, BeginFrame DEF IInv, CountInv
  <2> QED
    BY <2>1, <2>2
<1>9. ThreadInv' /\ OutInv'
  BY <1>1, <1>2, <1>3, BeginFrame DEF IInv, ThreadInv, OutInv
<1> QED
  BY <1>6, <1>7, <1>8, <1>9

\* Steps that only move callers within the wait and workers without a job.
LEMMA QuietStep ==
  ASSUME IInv,
         UNCHANGED <<queue, call, njobs, done, ran, counted, threads>>,
         \A w \in Workers :
           InFlight(w)' => wpc'[w] = wpc[w] /\ wjob'[w] = wjob[w],
         \A d \in Callers : cpc'[d] = cpc[d] \/ (InPool(d) /\ InPool(d)')
  PROVE  QueueInv' /\ FlightInv' /\ CountInv' /\ ThreadInv' /\ OutInv'
<1>1. \A w \in Workers : wpc'[w] = "run" => wpc[w] = "run" /\ wjob'[w] = wjob[w]
  BY DEF InFlight
<1>2. \A w \in Workers : InFlight(w)' => InFlight(w)
  BY DEF InFlight
<1>3. \A d \in Callers : InPool(d) => InPool(d)'
  BY DEF InPool
<1>4. QueueInv'
  BY <1>1, <1>3, JobFields DEF IInv, QueueInv, Current
<1>5. FlightInv'
  BY <1>1, <1>2, <1>3, JobFields DEF IInv, FlightInv, Current
<1>6. CountInv' /\ ThreadInv' /\ OutInv'
  BY DEF IInv, CountInv, ThreadInv, OutInv, InScope, InPool
<1> QED
  BY <1>4, <1>5, <1>6

LEMMA NotifyStep ==
  ASSUME IInv, NEW c \in Callers, NotifyOne(c)
  PROVE  QueueInv' /\ FlightInv' /\ CountInv' /\ ThreadInv' /\ OutInv'
<1>1. wpc' = wpc \/ \E w \in Workers : wpc' = [wpc EXCEPT ![w] = "idle"]
  BY DEF NotifyOne, WakeOne
<1>2. \A w \in Workers : InFlight(w)' => wpc'[w] = wpc[w] /\ wjob'[w] = wjob[w]
  BY <1>1 DEF NotifyOne, InFlight, IInv, TypeOK
<1>3. \A d \in Callers : cpc'[d] = cpc[d] \/ (InPool(d) /\ InPool(d)')
  BY DEF NotifyOne, InPool, IInv, TypeOK
<1>4. UNCHANGED <<queue, call, njobs, done, ran, counted, threads>>
  BY DEF NotifyOne, scopeVars
<1> QED
  BY <1>2, <1>3, <1>4, QuietStep

LEMMA SpuriousStep ==
  ASSUME IInv, NEW c \in Callers, SpuriousCaller(c)
  PROVE  QueueInv' /\ FlightInv' /\ CountInv' /\ ThreadInv' /\ OutInv'
<1>1. \A d \in Callers : cpc'[d] = cpc[d] \/ (InPool(d) /\ InPool(d)')
  BY DEF SpuriousCaller, InPool, IInv, TypeOK
<1>2. UNCHANGED <<queue, call, njobs, done, ran, counted, threads, wpc, wjob>>
  BY DEF SpuriousCaller, scopeVars, workerVars
<1> QED
  BY <1>1, <1>2, QuietStep

LEMMA WorkerIdleStep ==
  ASSUME IInv, NEW w \in Workers, WorkerWait(w) \/ SpuriousWorker(w) \/ RecordPanic(w)
  PROVE  QueueInv' /\ FlightInv' /\ CountInv' /\ ThreadInv' /\ OutInv'
<1>1. \A v \in Workers : InFlight(v)' => wpc'[v] = wpc[v] /\ wjob'[v] = wjob[v]
  BY DEF WorkerWait, SpuriousWorker, RecordPanic, InFlight, IInv, TypeOK
<1>2. UNCHANGED <<queue, call, njobs, done, ran, counted, threads, cpc>>
  BY DEF WorkerWait, SpuriousWorker, RecordPanic, callVars, scopeVars
<1> QED
  BY <1>1, <1>2, QuietStep

LEMMA IntervalCard ==
  ASSUME NEW n \in Nat
  PROVE  IsFiniteSet(1..n) /\ Cardinality(1..n) = n
<1>1. /\ IsFiniteSet(1..n)
      /\ Cardinality(1..n) = IF 1 > n THEN 0 ELSE n - 1 + 1
  BY FS_Interval, 1 \in Int, n \in Int
<1> QED
  BY <1>1

\* A caller that sees its count at n has no job queued or in flight any more:
\* the counted jobs are n of the n jobs.
LEMMA AllCounted ==
  ASSUME IInv, NEW c \in Callers, InScope(c), ~(done[c] < njobs[c])
  PROVE  counted[c] = 1..njobs[c] /\ ran[c] = 1..njobs[c]
<1>1. /\ counted[c] \subseteq 1..njobs[c]
      /\ counted[c] \subseteq ran[c] /\ ran[c] \subseteq 1..njobs[c]
      /\ done[c] = Cardinality(counted[c])
  BY DEF IInv, CountInv
<1>2. njobs[c] \in Nat /\ done[c] \in Nat
  BY DEF IInv, TypeOK
<1>3. IsFiniteSet(1..njobs[c]) /\ Cardinality(1..njobs[c]) = njobs[c]
  BY <1>2, IntervalCard
<1>4. Cardinality(counted[c]) <= njobs[c]
  BY <1>1, <1>3, FS_Subset
<1>5. Cardinality(counted[c]) = Cardinality(1..njobs[c])
  BY <1>1, <1>2, <1>3, <1>4
<1>6. counted[c] = 1..njobs[c]
  BY <1>1, <1>3, <1>5, FS_Subset
<1> QED
  BY <1>1, <1>6

LEMMA AwaitStep ==
  ASSUME IInv, NEW c \in Callers, AwaitDone(c)
  PROVE  QueueInv' /\ FlightInv' /\ CountInv' /\ ThreadInv' /\ OutInv'
<1>1. /\ cpc[c] = "await"
      /\ cpc' = [cpc EXCEPT ![c] = IF done[c] < njobs[c] THEN "blocked" ELSE "drain"]
      /\ UNCHANGED <<queue, call, njobs, done, ran, counted, threads, wpc, wjob>>
      /\ cpc \in [Callers -> {"out", "notify", "await", "blocked", "drain", "join"}]
  BY DEF AwaitDone, scopeVars, workerVars, IInv, TypeOK
<1>2. CASE done[c] < njobs[c]
  <2>1. \A d \in Callers : cpc'[d] = cpc[d] \/ (InPool(d) /\ InPool(d)')
    BY <1>1, <1>2 DEF InPool
  <2> QED
    BY <1>1, <2>1, QuietStep
<1>3. CASE ~(done[c] < njobs[c])
  <2>1. counted[c] = 1..njobs[c] /\ ran[c] = 1..njobs[c]
    BY <1>1, <1>3, AllCounted DEF InScope
  <2>2. \A k \in 1..Len(queue) : queue[k].caller # c
    BY <2>1 DEF IInv, QueueInv
  <2>3. \A w \in Workers : InFlight(w) => wjob[w].caller # c
    BY <2>1 DEF IInv, FlightInv
  <2>4. \A d \in Callers : d # c => cpc'[d] = cpc[d]
    BY <1>1
  <2>5. QueueInv'
    BY <1>1, <2>2, <2>4, JobFields DEF IInv, QueueInv, Current, InPool
  <2>6. FlightInv'
    BY <1>1, <2>3, <2>4, JobFields DEF IInv, FlightInv, InFlight, Current, InPool
  <2>7. CountInv'
    BY <1>1, <1>3, <2>1, <2>4 DEF IInv, CountInv, InScope
  <2>8. ThreadInv' /\ OutInv'
    BY <1>1, <1>3, <2>4 DEF IInv, ThreadInv, OutInv
  <2> QED
    BY <2>5, <2>6, <2>7, <2>8
<1> QED
  BY <1>2, <1>3

LEMMA ReturnStep ==
  ASSUME IInv, NEW c \in Callers, DrainPanics(c) \/ ThreadsJoined(c)
  PROVE  /\ ran[c] = 1..njobs[c]
         /\ QueueInv' /\ FlightInv' /\ CountInv' /\ ThreadInv' /\ OutInv'
<1>1. /\ cpc[c] \in {"drain", "join"}
      /\ cpc[c] = "join" => threads[c] = {}
      /\ cpc' = [cpc EXCEPT ![c] = "out"]
      /\ UNCHANGED <<queue, call, njobs, done, ran, counted, threads, wpc, wjob>>
      /\ cpc \in [Callers -> {"out", "notify", "await", "blocked", "drain", "join"}]
  BY DEF DrainPanics, ThreadsJoined, scopeVars, workerVars, IInv, TypeOK
<1>2. \A d \in Callers : d # c => cpc'[d] = cpc[d]
  BY <1>1
<1>3. ran[c] = 1..njobs[c]
  <2>1. CASE cpc[c] = "drain"
    BY <2>1 DEF IInv, CountInv, InScope
  <2>2. CASE cpc[c] = "join"
    BY <1>1, <2>2 DEF IInv, ThreadInv, OutInv, TypeOK
  <2> QED
    BY <1>1, <2>1, <2>2
<1>4. \A k \in 1..Len(queue) : queue[k].caller # c
  BY <1>1 DEF IInv, QueueInv, InPool
<1>5. \A w \in Workers : InFlight(w) => wjob[w].caller # c
  BY <1>1 DEF IInv, FlightInv, InPool
<1>6. QueueInv'
  BY <1>1, <1>2, <1>4, JobFields DEF IInv, QueueInv, Current, InPool
<1>7. FlightInv'
  BY <1>1, <1>2, <1>5, JobFields DEF IInv, FlightInv, InFlight, Current, InPool
<1>8. CountInv' /\ ThreadInv' /\ OutInv'
  BY <1>1, <1>2, <1>3 DEF IInv, CountInv, ThreadInv, OutInv, InScope
<1> QED
  BY <1>3, <1>6, <1>7, <1>8

LEMMA ThreadRunStep ==
  ASSUME IInv, NEW c \in Callers, NEW i \in threads[c], NEW err \in BOOLEAN,
         ThreadRun(c, i, err)
  PROVE  /\ i \in (1..njobs[c]) \ ran[c]
         /\ QueueInv' /\ FlightInv' /\ CountInv' /\ ThreadInv' /\ OutInv'
<1>1. /\ cpc[c] = "join"
      /\ threads' = [threads EXCEPT ![c] = @ \ {i}]
      /\ ran' = [ran EXCEPT ![c] = @ \union {i}]
      /\ UNCHANGED <<queue, call, njobs, done, counted, wpc, wjob, cpc>>
      /\ threads \in [Callers -> SUBSET Nat] /\ ran \in [Callers -> SUBSET Nat]
  BY DEF ThreadRun, workerVars, IInv, TypeOK
<1>2. i \in (1..njobs[c]) \ ran[c]
  BY <1>1 DEF IInv, ThreadInv
<1>3. \A d \in Callers : d # c => ran'[d] = ran[d] /\ threads'[d] = threads[d]
  BY <1>1
<1>4. ran'[c] = ran[c] \union {i} /\ threads'[c] = threads[c] \ {i}
  BY <1>1
<1>5. \A k \in 1..Len(queue) : queue[k].caller # c
  BY <1>1 DEF IInv, QueueInv, InPool
<1>6. \A w \in Workers : InFlight(w) => wjob[w].caller # c
  BY <1>1 DEF IInv, FlightInv, InPool
<1>7. QueueInv'
  BY <1>1, <1>3, <1>5, JobFields DEF IInv, QueueInv, Current, InPool
<1>8. FlightInv'
  BY <1>1, <1>3, <1>6, JobFields DEF IInv, FlightInv, InFlight, Current, InPool
<1>9. CountInv' /\ OutInv'
  BY <1>1, <1>3 DEF IInv, CountInv, OutInv, InScope
<1>10. ThreadInv'
  BY <1>1, <1>2, <1>3, <1>4 DEF IInv, ThreadInv
<1> QED
  BY <1>2, <1>7, <1>8, <1>9, <1>10

LEMMA PopStep ==
  ASSUME IInv, NEW w \in Workers, PopJob(w)
  PROVE  QueueInv' /\ FlightInv' /\ CountInv' /\ ThreadInv' /\ OutInv'
<1>1. /\ wpc[w] = "idle" /\ queue # <<>> /\ queue \in Seq(Job)
      /\ UNCHANGED <<call, njobs, done, ran, counted, threads, cpc>>
      /\ \A v \in Workers : v # w => wpc'[v] = wpc[v] /\ wjob'[v] = wjob[v]
      /\ wpc'[w] = "run" /\ wjob'[w] = Head(queue)
  BY DEF PopJob, callVars, scopeVars, IInv, TypeOK
<1>2. /\ Len(queue) \in Nat /\ Len(queue) > 0
      /\ wjob'[w] = queue[1]
      /\ Len(queue') = Len(queue) - 1
      /\ \A k \in 1..Len(queue') : queue'[k] = queue[k + 1] /\ k + 1 \in 1..Len(queue)
  <2>1. Len(queue) \in Nat /\ Len(queue) > 0 /\ Head(queue) = queue[1]
    BY <1>1
  <2>2. queue' = Tail(queue)
    BY DEF PopJob
  <2>3. /\ Len(queue') = Len(queue) - 1
        /\ \A k \in 1..Len(queue') : queue'[k] = queue[k + 1]
    BY <1>1, <2>2, HeadTailProperties
  <2> QED
    BY <1>1, <2>1, <2>3
<1>3. 1 \in 1..Len(queue)
  BY <1>2
<1>4. QueueInv'
  <2> SUFFICES ASSUME NEW k \in 1..Len(queue')
               PROVE  /\ Current(queue[k])'
                      /\ InPool(queue[k].caller)'
                      /\ (queue[k].idx \in 1..njobs[queue[k].caller])'
                      /\ (queue[k].idx \notin ran[queue[k].caller])'
                      /\ \A l \in 1..Len(queue') : l # k => queue'[l] # queue'[k]
                      /\ \A v \in Workers : wpc'[v] = "run" => wjob'[v] # queue'[k]
    BY DEF QueueInv
  <2>1. queue'[k] = queue[k + 1] /\ k + 1 \in 1..Len(queue) /\ k + 1 # 1
    BY <1>2
  <2>2. /\ Current(queue[k])' /\ InPool(queue[k].caller)'
        /\ (queue[k].idx \in 1..njobs[queue[k].caller])'
        /\ (queue[k].idx \notin ran[queue[k].caller])'
    BY <1>1, <2>1 DEF IInv, QueueInv, Current, InPool
  <2>3. ASSUME NEW l \in 1..Len(queue'), l # k PROVE queue'[l] # queue'[k]
    <3>1. queue'[l] = queue[l + 1] /\ l + 1 \in 1..Len(queue) /\ l + 1 # k + 1
      BY <1>2, <2>3
    <3> QED
      BY <2>1, <3>1 DEF IInv, QueueInv
  <2>4. ASSUME NEW v \in Workers, wpc'[v] = "run" PROVE wjob'[v] # queue'[k]
    <3>1. CASE v = w
      BY <1>2, <1>3, <2>1, <3>1 DEF IInv, QueueInv
    <3>2. CASE v # w
      BY <1>1, <2>1, <2>4, <3>2 DEF IInv, QueueInv
    <3> QED
      BY <3>1, <3>2
  <2> QED
    BY <2>2, <2>3, <2>4
<1>5. FlightInv'
  <2>1. /\ Current(queue[1]) /\ InPool(queue[1].caller)
        /\ queue[1].idx \in 1..njobs[queue[1].caller]
        /\ queue[1].idx \notin ran[queue[1].caller]
    BY <1>3 DEF IInv, QueueInv
  <2>2. queue[1].idx \notin counted[queue[1].caller]
    BY <1>3, <2>1, JobFields DEF IInv, CountInv, InScope, InPool
  <2>3. ASSUME NEW v \in Workers, v # w, InFlight(v) PROVE wjob[v] # queue[1]
    <3>1. CASE wpc[v] = "run"
      BY <1>3, <3>1 DEF IInv, QueueInv
    <3>2. CASE wpc[v] = "ran"
      BY <2>1, <2>3, <3>2 DEF IInv, FlightInv
    <3> QED
      BY <2>3, <3>1, <3>2 DEF InFlight
  <2> SUFFICES ASSUME NEW u \in Workers, InFlight(u)'
               PROVE  /\ Current(wjob[u])'
                      /\ InPool(wjob[u].caller)'
                      /\ (wjob[u].idx \in 1..njobs[wjob[u].caller])'
                      /\ (wjob[u].idx \notin counted[wjob[u].caller])'
                      /\ (wpc[u] = "run" <=> wjob[u].idx \notin ran[wjob[u].caller])'
                      /\ \A v \in Workers : v # u /\ InFlight(v)' => wjob'[v] # wjob'[u]
    BY DEF FlightInv
  <2>4. CASE u = w
    BY <1>1, <1>2, <2>1, <2>2, <2>3, <2>4 DEF Current, InPool, InFlight
  <2>5. CASE u # w
    <3>1. InFlight(u) /\ wjob'[u] = wjob[u] /\ wpc'[u] = wpc[u]
      BY <1>1, <2>5 DEF InFlight
    <3>2. \A v \in Workers : v # u /\ InFlight(v)' => wjob'[v] # wjob'[u]
      BY <1>1, <1>2, <2>3, <2>5, <3>1 DEF IInv, FlightInv, InFlight
    <3> QED
      BY <1>1, <3>1, <3>2 DEF IInv, FlightInv, Current, InPool
  <2> QED
    BY <2>4, <2>5
<1>6. CountInv' /\ ThreadInv' /\ OutInv'
  BY <1>1 DEF IInv, CountInv, ThreadInv, OutInv, InScope
<1> QED
  BY <1>4, <1>5, <1>6

\* Two jobs of one caller's current call are the same if their indices are.
LEMMA SameJob ==
  ASSUME NEW a \in Job, NEW b \in Job, Current(a), Current(b),
         a.caller = b.caller, a.idx = b.idx
  PROVE  a = b
  BY DEF Job, Current

LEMMA RunStep ==
  ASSUME IInv, NEW w \in Workers, NEW err \in BOOLEAN, RunJob(w, err)
  PROVE  /\ Current(wjob[w]) /\ InPool(wjob[w].caller)
         /\ wjob[w].idx \in (1..njobs[wjob[w].caller]) \ ran[wjob[w].caller]
         /\ QueueInv' /\ FlightInv' /\ CountInv' /\ ThreadInv' /\ OutInv'
<1> DEFINE c == wjob[w].caller
           i == wjob[w].idx
<1>1. c \in Callers /\ i \in Nat
  BY JobFields DEF IInv
<1>2. /\ wpc[w] = "run" /\ InFlight(w)
      /\ Current(wjob[w]) /\ InPool(c) /\ i \in 1..njobs[c]
      /\ i \notin ran[c] /\ i \notin counted[c]
      /\ \A v \in Workers : v # w /\ InFlight(v) => wjob[v] # wjob[w]
  BY DEF RunJob, IInv, FlightInv, InFlight
<1>3. /\ UNCHANGED <<queue, call, njobs, done, counted, threads, cpc, wjob>>
      /\ \A v \in Workers : v # w => wpc'[v] = wpc[v]
      /\ wpc'[w] = "ran"
      /\ \A d \in Callers : d # c => ran'[d] = ran[d]
      /\ ran'[c] = ran[c] \union {i}
  BY <1>1, <1>2 DEF RunJob, ForCall, callVars, IInv, TypeOK
<1> HIDE DEF c, i
<1>4. \A k \in 1..Len(queue) : queue[k].caller = c => queue[k].idx # i
  <2>1. \A k \in 1..Len(queue) : Current(queue[k]) /\ queue[k] # wjob[w]
    BY <1>2 DEF IInv, QueueInv
  <2> QED
    BY <1>2, <2>1, JobFields, SameJob DEF IInv, c, i
<1>5. \A v \in Workers : v # w /\ InFlight(v) /\ wjob[v].caller = c => wjob[v].idx # i
  <2>1. \A v \in Workers : v # w /\ InFlight(v) => Current(wjob[v]) /\ wjob[v] # wjob[w]
    BY <1>2 DEF IInv, FlightInv
  <2> QED
    BY <1>2, <2>1, JobFields, SameJob DEF IInv, c, i
<1>6. QueueInv'
  <2>1. \A k \in 1..Len(queue) : queue[k].idx \notin ran'[queue[k].caller]
    BY <1>3, <1>4, JobFields DEF IInv, QueueInv
  <2>2. \A v \in Workers : wpc'[v] = "run" => wpc[v] = "run"
    BY <1>3
  <2> QED
    BY <1>3, <2>1, <2>2 DEF IInv, QueueInv, Current, InPool
<1>7. FlightInv'
  <2> SUFFICES ASSUME NEW u \in Workers, InFlight(u)'
               PROVE  /\ Current(wjob[u])'
                      /\ InPool(wjob[u].caller)'
                      /\ (wjob[u].idx \in 1..njobs[wjob[u].caller])'
                      /\ (wjob[u].idx \notin counted[wjob[u].caller])'
                      /\ (wpc[u] = "run" <=> wjob[u].idx \notin ran[wjob[u].caller])'
                      /\ \A v \in Workers : v # u /\ InFlight(v)' => wjob'[v] # wjob'[u]
    BY DEF FlightInv
  <2>1. InFlight(u) /\ \A v \in Workers : InFlight(v)' => InFlight(v)
    BY <1>2, <1>3 DEF InFlight
  <2>2. (wpc[u] = "run" <=> wjob[u].idx \notin ran[wjob[u].caller])'
    <3>1. CASE u = w
      BY <1>3, <3>1 DEF c, i
    <3>2. CASE u # w /\ wjob[u].caller = c
      BY <1>3, <1>5, <2>1, <3>2 DEF IInv, FlightInv
    <3>3. CASE u # w /\ wjob[u].caller # c
      BY <1>3, <2>1, <3>3, JobFields DEF IInv, FlightInv
    <3> QED
      BY <3>1, <3>2, <3>3
  <2> QED
    BY <1>3, <2>1, <2>2 DEF IInv, FlightInv, Current, InPool
<1>8. CountInv'
  BY <1>1, <1>2, <1>3 DEF IInv, CountInv, InScope, c
<1>9. ThreadInv' /\ OutInv'
  BY <1>1, <1>2, <1>3 DEF IInv, ThreadInv, OutInv, InPool
<1> QED
  BY <1>2, <1>6, <1>7, <1>8, <1>9 DEF c, i

LEMMA CountStep ==
  ASSUME IInv, NEW w \in Workers, CountDone(w)
  PROVE  QueueInv' /\ FlightInv' /\ CountInv' /\ ThreadInv' /\ OutInv'
<1> DEFINE c == wjob[w].caller
           i == wjob[w].idx
<1>1. c \in Callers /\ i \in Nat
  BY JobFields DEF IInv
<1>2. /\ wpc[w] = "ran" /\ InFlight(w)
      /\ Current(wjob[w]) /\ InPool(c) /\ i \in 1..njobs[c]
      /\ i \in ran[c] /\ i \notin counted[c]
      /\ \A v \in Workers : v # w /\ InFlight(v) => wjob[v] # wjob[w]
  BY DEF CountDone, IInv, FlightInv, InFlight
<1>3. /\ UNCHANGED <<queue, call, njobs, threads, ran>>
      /\ \A v \in Workers : v # w => wpc'[v] = wpc[v] /\ wjob'[v] = wjob[v]
      /\ wpc'[w] \in {"record", "idle"}
      /\ \A d \in Callers : d # c => done'[d] = done[d] /\ counted'[d] = counted[d]
      /\ counted'[c] = counted[c] \union {i} /\ done'[c] = done[c] + 1
      /\ \A d \in Callers : d # c => cpc'[d] = cpc[d]
      /\ cpc'[c] = IF cpc[c] = "blocked" THEN "await" ELSE cpc[c]
  BY <1>1, <1>2 DEF CountDone, ForCall, IInv, TypeOK
<1>4. \A d \in Callers : /\ InPool(d) <=> InPool(d)'
                         /\ InScope(d) <=> InScope(d)'
                         /\ cpc'[d] = "drain" <=> cpc[d] = "drain"
                         /\ cpc'[d] = "join" <=> cpc[d] = "join"
                         /\ cpc'[d] = "out" <=> cpc[d] = "out"
  BY <1>3 DEF InPool, InScope
<1>5. \A v \in Workers : InFlight(v)' => v # w /\ InFlight(v)
  BY <1>3 DEF InFlight
<1> HIDE DEF c, i
<1>6. \A v \in Workers : v # w /\ InFlight(v) /\ wjob[v].caller = c => wjob[v].idx # i
  BY <1>2, JobFields DEF IInv, FlightInv, Current, Job, c, i
<1>7. QueueInv'
  <2>1. \A v \in Workers : wpc'[v] = "run" => wpc[v] = "run" /\ wjob'[v] = wjob[v]
    BY <1>3
  <2> QED
    BY <1>3, <1>4, <2>1, JobFields, SMTT(30) DEF IInv, QueueInv, Current
<1>8. FlightInv'
  <2> SUFFICES ASSUME NEW u \in Workers, InFlight(u)'
               PROVE  /\ Current(wjob[u])'
                      /\ InPool(wjob[u].caller)'
                      /\ (wjob[u].idx \in 1..njobs[wjob[u].caller])'
                      /\ (wjob[u].idx \notin counted[wjob[u].caller])'
                      /\ (wpc[u] = "run" <=> wjob[u].idx \notin ran[wjob[u].caller])'
                      /\ \A v \in Workers : v # u /\ InFlight(v)' => wjob'[v] # wjob'[u]
    BY DEF FlightInv
  <2>1. InFlight(u) /\ u # w /\ wjob'[u] = wjob[u] /\ wpc'[u] = wpc[u]
    BY <1>3, <1>5
  <2>2. (wjob[u].idx \notin counted[wjob[u].caller])'
    BY <1>3, <1>6, <2>1, JobFields DEF IInv, FlightInv
  <2>3. \A v \in Workers : v # u /\ InFlight(v)' => wjob'[v] # wjob'[u]
    BY <1>3, <1>5, <2>1 DEF IInv, FlightInv
  <2> QED
    BY <1>3, <1>4, <2>1, <2>2, <2>3, JobFields DEF IInv, FlightInv, Current
<1>9. CountInv'
  <2> SUFFICES ASSUME NEW d \in Callers, InScope(d)'
               PROVE  (/\ counted[d] \subseteq ran[d]
                       /\ ran[d] \subseteq 1..njobs[d]
                       /\ done[d] = Cardinality(counted[d])
                       /\ cpc[d] = "drain" => counted[d] = 1..njobs[d])'
    BY DEF CountInv
  <2>1. CASE d # c
    BY <1>3, <1>4, <2>1 DEF IInv, CountInv
  <2>2. CASE d = c
    <3>1. /\ counted[c] \subseteq ran[c] /\ ran[c] \subseteq 1..njobs[c]
          /\ done[c] = Cardinality(counted[c])
      BY <1>4, <2>2 DEF IInv, CountInv
    <3>2. njobs[c] \in Nat
      BY <1>1 DEF IInv, TypeOK, c
    <3>3. IsFiniteSet(counted[c])
      BY <3>1, <3>2, IntervalCard, FS_Subset
    <3>4. Cardinality(counted[c] \union {i}) = Cardinality(counted[c]) + 1
      BY <1>2, <3>3, FS_AddElement DEF c, i
    <3>5. cpc'[c] # "drain"
      BY <1>2, <1>3 DEF InPool, c
    <3> QED
      BY <1>2, <1>3, <2>2, <3>1, <3>4, <3>5 DEF c, i
  <2> QED
    BY <2>1, <2>2
<1>10. ThreadInv' /\ OutInv'
  BY <1>3, <1>4 DEF IInv, ThreadInv, OutInv
<1> QED
  BY <1>7, <1>8, <1>9, <1>10

LEMMA StutterStep ==
  ASSUME IInv, UNCHANGED vars
  PROVE  QueueInv' /\ FlightInv' /\ CountInv' /\ ThreadInv' /\ OutInv'
<1>1. UNCHANGED <<queue, call, njobs, done, ran, counted, threads>>
  BY DEF vars, scopeVars, callVars
<1>2. UNCHANGED <<cpc, wpc, wjob>>
  BY DEF vars, workerVars, callVars
<1>3. \A w \in Workers : InFlight(w)' => wpc'[w] = wpc[w] /\ wjob'[w] = wjob[w]
  BY <1>2
<1>4. \A d \in Callers : cpc'[d] = cpc[d] \/ (InPool(d) /\ InPool(d)')
  BY <1>2
<1> QED
  BY <1>1, <1>3, <1>4, QuietStep

LEMMA InvStep == IInv /\ [Next]_vars => IInv'
<1> SUFFICES ASSUME IInv, [Next]_vars PROVE IInv'
  OBVIOUS
<1> DEFINE G == QueueInv /\ FlightInv /\ CountInv /\ ThreadInv /\ OutInv
<1>1. TypeOK'
  BY TypeStep DEF IInv
<1>2. ASSUME NEW c \in Callers, CallerStep(c) PROVE G'
  BY <1>2, EmptyStep, ThreadsStep, PooledStep, NotifyStep, AwaitStep, SpuriousStep,
     ReturnStep, ThreadRunStep DEF CallerStep
<1>3. ASSUME NEW w \in Workers, WorkerStep(w) PROVE G'
  BY <1>3, PopStep, WorkerIdleStep, RunStep, CountStep DEF WorkerStep
<1>4. ASSUME UNCHANGED vars PROVE G'
  BY <1>4, StutterStep
<1> QED
  BY <1>1, <1>2, <1>3, <1>4 DEF Next, IInv

LEMMA Invariance == Spec => []IInv
  BY InvInit, InvStep, PTL DEF Spec

\* No job outlives the scope_run call whose stack it borrows from.
THEOREM BorrowSafe == Spec => []BorrowSafety
<1>1. IInv => BorrowSafety
  BY DEF IInv, QueueInv, FlightInv, InFlight, BorrowSafety
<1> QED
  BY <1>1, Invariance, PTL

-----------------------------------------------------------------------------
(* No lost wakeup.                                                         *)

\* Somebody notifies only when there is a worker to notify.
WakeInv == NoLostWakeup /\ (Workers = {} => \A c \in Callers : cpc[c] # "notify")

LEMMA WakeStep == TypeOK /\ WakeInv /\ [Next]_vars => WakeInv'
<1> SUFFICES ASSUME TypeOK, WakeInv, [Next]_vars PROVE WakeInv'
  OBVIOUS
<1>1. ASSUME NEW c \in Callers,
             UNCHANGED <<queue, wpc>>,
             \A d \in Callers : cpc[d] = "notify" <=> cpc'[d] = "notify"
      PROVE  WakeInv'
  BY <1>1 DEF WakeInv, NoLostWakeup
<1>2. ASSUME NEW c \in Callers, NEW n \in 1..MaxJobs, ScopePooled(c, n) PROVE WakeInv'
  <2>1. cpc'[c] = "notify"
    BY <1>2 DEF ScopePooled, TypeOK
  <2>2. Workers # {}
    BY <1>2, FS_EmptySet, ConstantsAssumption DEF ScopePooled, UseThreads
  <2> QED
    BY <2>1, <2>2 DEF WakeInv, NoLostWakeup
<1>3. ASSUME NEW c \in Callers, NotifyOne(c) PROVE WakeInv'
  <2>1. cpc[c] = "notify" /\ Workers # {}
    BY <1>3 DEF NotifyOne, WakeInv
  <2>2. \E w \in Workers : wpc'[w] # "waiting"
    BY <1>3, <2>1 DEF NotifyOne, WakeOne, TypeOK
  <2> QED
    BY <2>1, <2>2 DEF WakeInv, NoLostWakeup
<1>4. ASSUME NEW w \in Workers, WorkerStep(w) PROVE WakeInv'
  <2>1. \A d \in Callers : cpc[d] = "notify" <=> cpc'[d] = "notify"
    <3>1. CASE CountDone(w)
      BY <3>1, JobFields DEF CountDone, ForCall, TypeOK
    <3>2. CASE PopJob(w) \/ WorkerWait(w) \/ SpuriousWorker(w) \/ RecordPanic(w)
               \/ \E err \in BOOLEAN : RunJob(w, err)
      <4>1. cpc' = cpc
        BY <3>2 DEF PopJob, WorkerWait, SpuriousWorker, RunJob, RecordPanic, callVars
      <4> QED
        BY <4>1
    <3> QED
      BY <1>4, <3>1, <3>2 DEF WorkerStep
  <2>2. queue' # <<>> => wpc'[w] # "waiting"
    BY <1>4 DEF WorkerStep, PopJob, WorkerWait, SpuriousWorker, RunJob, CountDone,
                RecordPanic, TypeOK
  <2> QED
    BY <2>1, <2>2 DEF WakeInv, NoLostWakeup
<1>5. ASSUME NEW c \in Callers, CallerStep(c) PROVE WakeInv'
  <2>1. CASE ScopeEmpty(c)
    BY <1>1, <2>1 DEF ScopeEmpty, BeginCall, workerVars
  <2>2. ASSUME NEW n \in 1..MaxJobs, ScopeThreads(c, n) PROVE WakeInv'
    BY <1>1, <2>2 DEF ScopeThreads, BeginCall, workerVars, TypeOK
  <2>3. CASE AwaitDone(c) \/ SpuriousCaller(c)
    BY <1>1, <2>3 DEF AwaitDone, SpuriousCaller, workerVars, TypeOK
  <2>4. CASE DrainPanics(c) \/ ThreadsJoined(c)
    BY <1>1, <2>4 DEF DrainPanics, ThreadsJoined, workerVars, TypeOK
  <2>5. ASSUME NEW i \in threads[c], NEW err \in BOOLEAN, ThreadRun(c, i, err)
        PROVE  WakeInv'
    BY <1>1, <2>5 DEF ThreadRun, workerVars
  <2> QED
    BY <1>2, <1>3, <1>5, <2>1, <2>2, <2>3, <2>4, <2>5 DEF CallerStep
<1>6. CASE UNCHANGED vars
  BY <1>6 DEF vars, workerVars, callVars, WakeInv, NoLostWakeup
<1> QED
  BY <1>4, <1>5, <1>6 DEF Next

\* Queued jobs never wait for a worker that nobody will wake.
THEOREM WakeupsReach == Spec => []NoLostWakeup
<1>1. Init => WakeInv
  BY DEF Init, WakeInv, NoLostWakeup
<1>2. WakeInv => NoLostWakeup
  BY DEF WakeInv
<1> QED
  BY <1>1, <1>2, TypeCorrect, WakeStep, PTL DEF Spec

-----------------------------------------------------------------------------
(* Panics surface in their own call.                                       *)

\* Every payload, recorded or on its way, comes from a job that failed in the call
\* it is recorded for; a job of an older call is never taken for a current one.
PanicInv ==
  /\ \A w \in Workers : wjob[w].call <= call[wjob[w].caller]
  /\ \A w \in Workers : wpc[w] \in {"ran", "record"} /\ werr[w] /\ Current(wjob[w])
                          => failed[wjob[w].caller] # {}
  /\ \A w \in Workers : wpc[w] = "record" => werr[w]
  /\ \A c \in Callers : panics[c] # <<>> => failed[c] # {}
  /\ PanicIsOwn

\* A new call leaves the older jobs behind.
LEMMA PanicBegin ==
  ASSUME TypeOK, PanicInv, NEW c \in Callers, NEW n, BeginCall(c, n),
         NEW o \in {"ok", "none"}, outcome' = [outcome EXCEPT ![c] = o]
  PROVE  PanicInv'
<1>1. /\ call' = [call EXCEPT ![c] = @ + 1] /\ panics' = [panics EXCEPT ![c] = <<>>]
      /\ failed' = [failed EXCEPT ![c] = {}]
      /\ wpc' = wpc /\ wjob' = wjob /\ werr' = werr
  BY DEF BeginCall, workerVars
<1>2. \A w \in Workers : wjob[w].caller \in Callers /\ wjob[w].call \in Nat
  BY JobFields DEF Job
<1>3. call \in [Callers -> Nat] /\ call[c] \in Nat
  BY DEF TypeOK
<1>4. \A w \in Workers : wjob'[w].call <= call'[wjob'[w].caller]
  BY <1>1, <1>2, <1>3 DEF PanicInv
<1>5. \A w \in Workers : Current(wjob[w])' => Current(wjob[w]) /\ wjob[w].caller # c
  BY <1>1, <1>2, <1>3 DEF PanicInv, Current
<1>6. \A d \in Callers : d # c => failed'[d] = failed[d] /\ panics'[d] = panics[d]
  BY <1>1 DEF TypeOK
<1>7. panics'[c] = <<>> /\ outcome'[c] # "panic"
  BY <1>1 DEF TypeOK
<1>8. \A d \in Callers : d # c => outcome'[d] = outcome[d]
  BY DEF TypeOK
<1> QED
  BY <1>1, <1>2, <1>4, <1>5, <1>6, <1>7, <1>8 DEF PanicInv, PanicIsOwn

\* Steps in which no worker comes to a new job and no payload is recorded.
LEMMA PanicQuiet ==
  ASSUME TypeOK, PanicInv, UNCHANGED <<wjob, werr, call, panics>>,
         \A w \in Workers : wpc'[w] \in {"ran", "record"} => wpc'[w] = wpc[w],
         \A c \in Callers : failed[c] \subseteq failed'[c],
         \A c \in Callers : outcome'[c] = "panic" => outcome[c] = "panic"
  PROVE  PanicInv'
<1>1. \A w \in Workers : wjob[w].caller \in Callers
  BY JobFields
<1> QED
  BY <1>1 DEF PanicInv, PanicIsOwn, Current

LEMMA PanicCaller ==
  ASSUME TypeOK, PanicInv, NEW c \in Callers, CallerStep(c)
  PROVE  PanicInv'
<1>1. CASE ScopeEmpty(c)
  BY <1>1, PanicBegin DEF ScopeEmpty
<1>2. ASSUME NEW n \in 1..MaxJobs, ScopeThreads(c, n) \/ ScopePooled(c, n)
      PROVE  PanicInv'
  BY <1>2, PanicBegin DEF ScopeThreads, ScopePooled
<1>3. CASE NotifyOne(c)
  <2>1. wpc' = wpc \/ \E w \in Workers : wpc' = [wpc EXCEPT ![w] = "idle"]
    BY <1>3 DEF NotifyOne, WakeOne
  <2>2. \A w \in Workers : wpc'[w] \in {"ran", "record"} => wpc'[w] = wpc[w]
    BY <2>1 DEF TypeOK
  <2> QED
    BY <1>3, <2>2, PanicQuiet DEF NotifyOne, scopeVars
<1>4. CASE AwaitDone(c) \/ SpuriousCaller(c)
  BY <1>4, PanicQuiet DEF AwaitDone, SpuriousCaller, workerVars, scopeVars
<1>5. CASE DrainPanics(c)
  <2>1. outcome' = [outcome EXCEPT ![c] = IF panics[c] = <<>> THEN "ok" ELSE "panic"]
        /\ panics' = [panics EXCEPT ![c] = <<>>]
        /\ UNCHANGED <<wpc, wjob, werr, call, failed>>
    BY <1>5 DEF DrainPanics, workerVars
  <2>2. \A d \in Callers : panics'[d] # <<>> => failed'[d] # {}
    BY <2>1 DEF PanicInv, TypeOK
  <2>3. PanicIsOwn'
    BY <2>1 DEF PanicInv, PanicIsOwn, TypeOK
  <2> QED
    BY <2>1, <2>2, <2>3 DEF PanicInv, Current
<1>6. ASSUME NEW i \in threads[c], NEW err \in BOOLEAN, ThreadRun(c, i, err)
      PROVE  PanicInv'
  <2>1. \A d \in Callers : failed[d] \subseteq failed'[d]
    BY <1>6 DEF ThreadRun, TypeOK
  <2> QED
    BY <1>6, <2>1, PanicQuiet DEF ThreadRun, workerVars
<1>7. CASE ThreadsJoined(c)
  <2>1. outcome' = [outcome EXCEPT ![c] = IF failed[c] = {} THEN "ok" ELSE "panic"]
        /\ UNCHANGED <<wpc, wjob, werr, call, failed, panics>>
    BY <1>7 DEF ThreadsJoined, workerVars, scopeVars
  <2>2. PanicIsOwn'
    BY <2>1 DEF PanicInv, PanicIsOwn, TypeOK
  <2> QED
    BY <2>1, <2>2 DEF PanicInv, Current
<1> QED
  BY <1>1, <1>2, <1>3, <1>4, <1>5, <1>6, <1>7 DEF CallerStep

LEMMA PanicWorker ==
  ASSUME TypeOK, QueueInv, PanicInv, NEW w \in Workers, WorkerStep(w)
  PROVE  PanicInv'
<1>1. /\ wjob[w].caller \in Callers /\ \A v \in Workers : wjob[v].caller \in Callers
      /\ NoJob.caller \in Callers /\ NoJob.call = 0
  BY JobFields, ConstantsAssumption DEF NoJob
<1>2. call \in [Callers -> Nat] /\ wpc \in [Workers -> {"idle", "waiting", "run", "ran", "record"}]
      /\ wjob \in [Workers -> Job] /\ werr \in [Workers -> BOOLEAN]
      /\ failed \in [Callers -> SUBSET Nat] /\ panics \in [Callers -> Seq(Nat)]
  BY DEF TypeOK
<1>3. NoJob.call <= call[NoJob.caller]
  BY <1>1, <1>2
<1>4. CASE PopJob(w)
  <2>1. Head(queue).call = call[Head(queue).caller] /\ call[Head(queue).caller] \in Nat
    <3>1. 1 \in 1..Len(queue) /\ Head(queue) = queue[1]
      BY <1>4 DEF PopJob, TypeOK
    <3>2. Current(queue[1]) /\ queue[1].caller \in Callers
      BY <3>1, JobFields DEF QueueInv
    <3> QED
      BY <1>2, <3>1, <3>2 DEF Current
  <2>2. /\ wjob' = [wjob EXCEPT ![w] = Head(queue)] /\ wpc' = [wpc EXCEPT ![w] = "run"]
        /\ UNCHANGED <<werr, call, failed, panics, outcome>>
    BY <1>4 DEF PopJob, callVars, scopeVars
  <2>3. \A v \in Workers : wjob'[v].call <= call'[wjob'[v].caller]
    BY <1>2, <2>1, <2>2 DEF PanicInv
  <2>4. \A v \in Workers : wpc'[v] \in {"ran", "record"}
                             => v # w /\ wpc'[v] = wpc[v] /\ wjob'[v] = wjob[v]
    BY <1>2, <2>2
  <2> QED
    BY <2>2, <2>3, <2>4 DEF PanicInv, PanicIsOwn, Current
<1>5. CASE WorkerWait(w) \/ SpuriousWorker(w)
  <2>1. \A v \in Workers : wpc'[v] \in {"ran", "record"} => wpc'[v] = wpc[v]
    BY <1>2, <1>5 DEF WorkerWait, SpuriousWorker
  <2> QED
    BY <1>5, <2>1, PanicQuiet DEF WorkerWait, SpuriousWorker, callVars, scopeVars
<1>6. ASSUME NEW err \in BOOLEAN, RunJob(w, err) PROVE PanicInv'
  <2>1. /\ wpc' = [wpc EXCEPT ![w] = "ran"] /\ werr' = [werr EXCEPT ![w] = err]
        /\ failed' = ForCall(failed, wjob[w], IF err THEN failed[wjob[w].caller] \union {wjob[w].idx}
                                                     ELSE failed[wjob[w].caller])
        /\ UNCHANGED <<wjob, call, panics, outcome>>
    BY <1>6 DEF RunJob, callVars
  <2>2. \A d \in Callers : failed[d] \subseteq failed'[d]
    BY <1>2, <2>1 DEF ForCall
  <2>3. err /\ Current(wjob[w]) => failed'[wjob[w].caller] # {}
    BY <1>1, <1>2, <2>1 DEF ForCall
  <2>4. \A v \in Workers : v # w => wpc'[v] = wpc[v] /\ werr'[v] = werr[v]
    BY <1>2, <2>1
  <2>5. werr'[w] = err
    BY <1>2, <2>1
  <2>6. \A v \in Workers : wpc'[v] \in {"ran", "record"} /\ werr'[v] /\ Current(wjob[v])'
                          => failed'[wjob'[v].caller] # {}
    BY <1>1, <2>1, <2>2, <2>3, <2>4, <2>5, ZenonT(30) DEF PanicInv, Current
  <2>7. \A v \in Workers : wpc'[v] = "record" => werr'[v]
    BY <1>2, <2>1, <2>4 DEF PanicInv
  <2> QED
    BY <2>1, <2>2, <2>6, <2>7 DEF PanicInv, PanicIsOwn
<1>7. CASE CountDone(w)
  <2>1. /\ wpc' = [wpc EXCEPT ![w] = IF werr[w] THEN "record" ELSE "idle"]
        /\ wjob' = [wjob EXCEPT ![w] = IF werr[w] THEN @ ELSE NoJob]
        /\ wpc[w] = "ran"
        /\ UNCHANGED <<werr, call, panics, outcome, failed>>
    BY <1>7 DEF CountDone
  <2>2. \A v \in Workers : wjob'[v].call <= call'[wjob'[v].caller]
    BY <1>2, <1>3, <2>1 DEF PanicInv
  <2>3. \A v \in Workers : wpc'[v] \in {"ran", "record"} /\ werr'[v]
                          => wpc[v] \in {"ran", "record"} /\ wjob'[v] = wjob[v]
    BY <1>2, <2>1
  <2>4. \A v \in Workers : wpc'[v] = "record" => werr'[v]
    BY <1>2, <2>1 DEF PanicInv
  <2> QED
    BY <2>1, <2>2, <2>3, <2>4 DEF PanicInv, PanicIsOwn, Current
<1>8. CASE RecordPanic(w)
  <2> DEFINE c == wjob[w].caller
  <2>1. /\ wpc[w] = "record" /\ wpc' = [wpc EXCEPT ![w] = "idle"]
        /\ panics' = ForCall(panics, wjob[w], Append(panics[c], wjob[w].idx))
        /\ wjob' = [wjob EXCEPT ![w] = NoJob] /\ werr' = [werr EXCEPT ![w] = FALSE]
        /\ UNCHANGED <<call, outcome, failed>>
    BY <1>8 DEF RecordPanic, callVars
  <2>2. \A v \in Workers : wjob'[v].call <= call'[wjob'[v].caller]
    BY <1>2, <1>3, <2>1 DEF PanicInv
  <2>3. \A v \in Workers : wpc'[v] \in {"ran", "record"} => v # w /\ wpc'[v] = wpc[v]
                             /\ wjob'[v] = wjob[v] /\ werr'[v] = werr[v]
    BY <1>2, <2>1
  <2>4. \A d \in Callers : panics'[d] # <<>> => failed[d] # {}
    <3>1. Current(wjob[w]) => failed[c] # {}
      BY <2>1 DEF PanicInv
    <3>2. \A d \in Callers : panics'[d] = panics[d] \/ (Current(wjob[w]) /\ d = c)
      BY <1>1, <1>2, <2>1 DEF ForCall
    <3> QED
      BY <3>1, <3>2 DEF PanicInv
  <2> HIDE DEF c
  <2>5. \A v \in Workers : wpc'[v] \in {"ran", "record"} /\ werr'[v] /\ Current(wjob[v])'
                          => failed'[wjob'[v].caller] # {}
    <3> SUFFICES ASSUME NEW v \in Workers, wpc'[v] \in {"ran", "record"}, werr'[v], Current(wjob[v])'
                 PROVE  failed'[wjob'[v].caller] # {}
      OBVIOUS
    <3>1. wjob'[v] = wjob[v] /\ wpc[v] \in {"ran", "record"} /\ werr[v]
      BY <2>3
    <3>2. Current(wjob[v])
      BY <2>1, <3>1 DEF Current
    <3> QED
      BY <2>1, <3>1, <3>2 DEF PanicInv
  <2>6. \A v \in Workers : wpc'[v] = "record" => werr'[v]
    BY <2>3 DEF PanicInv
  <2>7. PanicIsOwn'
    BY <2>1 DEF PanicInv, PanicIsOwn
  <2> QED
    BY <2>1, <2>2, <2>4, <2>5, <2>6, <2>7 DEF PanicInv
<1> QED
  BY <1>4, <1>5, <1>6, <1>7, <1>8 DEF WorkerStep

\* A call that unwinds had a job that panicked in that very call, for any callers
\* and workers (pool.rs 209, 247).
THEOREM PanicsAreOwn == Spec => []PanicIsOwn
<1>1. Init => PanicInv
  BY ConstantsAssumption DEF Init, PanicInv, PanicIsOwn, NoJob
<1>2. IInv /\ PanicInv /\ [Next]_vars => PanicInv'
  <2>1. IInv => TypeOK /\ QueueInv
    BY DEF IInv
  <2>2. PanicInv /\ UNCHANGED vars => PanicInv'
    BY DEF vars, workerVars, callVars, scopeVars, PanicInv, PanicIsOwn, Current
  <2> QED
    BY <2>1, <2>2, PanicCaller, PanicWorker DEF Next
<1>3. PanicInv => PanicIsOwn
  BY DEF PanicInv
<1> QED
  BY <1>1, <1>2, <1>3, Invariance, PTL DEF Spec

-----------------------------------------------------------------------------
(* Refinement.                                                             *)

AbsOpen == [c \in Callers |-> cpc[c] # "out"]
AbsTodo == [c \in Callers |-> (1..njobs[c]) \ ran[c]]

LEMMA AbsBegin ==
  ASSUME IInv, NEW c \in Callers, NEW n \in 0..MaxJobs, BeginCall(c, n),
         \A d \in Callers : d # c => cpc'[d] = cpc[d],
         (cpc'[c] # "out") = (n > 0)
  PROVE  Abstract!Next
<1>1. n \in Nat
  BY ConstantsAssumption
<1>2. AbsTodo' = [AbsTodo EXCEPT ![c] = 1..n]
  <2>1. (1..njobs'[c]) \ ran'[c] = 1..n
    BY <1>1, BeginFrame
  <2>2. \A d \in Callers \ {c} : (1..njobs'[d]) \ ran'[d] = (1..njobs[d]) \ ran[d]
    BY <1>1, BeginFrame
  <2> QED
    BY <2>1, <2>2 DEF AbsTodo
<1>3. AbsOpen' = [AbsOpen EXCEPT ![c] = n > 0] /\ ~AbsOpen[c]
  BY DEF AbsOpen, BeginCall
<1>4. Abstract!Call(c, n)
  BY <1>2, <1>3 DEF Abstract!Call, AbsOpen, AbsTodo
<1> QED
  BY <1>4 DEF Abstract!Next

LEMMA AbsRun ==
  ASSUME IInv, NEW c \in Callers, NEW i, cpc[c] # "out", i \in (1..njobs[c]) \ ran[c],
         UNCHANGED <<cpc, njobs>>,
         \A d \in Callers : d # c => ran'[d] = ran[d],
         ran'[c] = ran[c] \union {i}
  PROVE  Abstract!Next
<1>1. AbsTodo' = [AbsTodo EXCEPT ![c] = @ \ {i}] /\ i \in AbsTodo[c]
  BY DEF AbsTodo
<1>2. AbsOpen' = AbsOpen /\ AbsOpen[c]
  BY DEF AbsOpen
<1>3. Abstract!Run(c, i)
  BY <1>1, <1>2 DEF Abstract!Run, AbsOpen, AbsTodo
<1> QED
  BY <1>1, <1>3 DEF Abstract!Next, AbsTodo

LEMMA AbsReturn ==
  ASSUME IInv, NEW c \in Callers, DrainPanics(c) \/ ThreadsJoined(c)
  PROVE  Abstract!Next
<1>1. ran[c] = 1..njobs[c]
  BY ReturnStep
<1>2. /\ cpc[c] # "out" /\ cpc' = [cpc EXCEPT ![c] = "out"]
      /\ UNCHANGED <<njobs, ran>>
      /\ cpc \in [Callers -> {"out", "notify", "await", "blocked", "drain", "join"}]
  BY DEF DrainPanics, ThreadsJoined, scopeVars, IInv, TypeOK
<1>3. AbsTodo' = AbsTodo /\ AbsTodo[c] = {}
  BY <1>1, <1>2 DEF AbsTodo
<1>4. AbsOpen' = [AbsOpen EXCEPT ![c] = FALSE] /\ AbsOpen[c]
  BY <1>2 DEF AbsOpen
<1>5. Abstract!Return(c)
  BY <1>3, <1>4 DEF Abstract!Return, AbsOpen, AbsTodo
<1> QED
  BY <1>5 DEF Abstract!Next

\* Steps that neither open or close a call nor run a job.
LEMMA AbsStutter ==
  ASSUME UNCHANGED <<njobs, ran>>,
         \A d \in Callers : cpc[d] = "out" <=> cpc'[d] = "out"
  PROVE  UNCHANGED Abstract!vars
<1>1. AbsTodo' = AbsTodo
  BY DEF AbsTodo
<1>2. AbsOpen' = AbsOpen
  BY DEF AbsOpen
<1> QED
  BY <1>1, <1>2 DEF Abstract!vars, AbsOpen, AbsTodo

LEMMA AbsStep == IInv /\ [Next]_vars => [Abstract!Next]_(Abstract!vars)
<1> SUFFICES ASSUME IInv, [Next]_vars PROVE [Abstract!Next]_(Abstract!vars)
  OBVIOUS
<1>1. ASSUME NEW c \in Callers, CallerStep(c) PROVE [Abstract!Next]_(Abstract!vars)
  <2>1. CASE ScopeEmpty(c)
    <3>1. 0 \in 0..MaxJobs /\ cpc[c] = "out" /\ cpc' = cpc /\ BeginCall(c, 0)
      BY <2>1, ConstantsAssumption DEF ScopeEmpty, BeginCall
    <3>2. (cpc'[c] # "out") = (0 > 0)
      BY <3>1
    <3> QED
      BY <3>1, <3>2, AbsBegin
  <2>2. ASSUME NEW n \in 1..MaxJobs, ScopeThreads(c, n) \/ ScopePooled(c, n)
        PROVE  [Abstract!Next]_(Abstract!vars)
    <3>1. n \in 0..MaxJobs /\ BeginCall(c, n) /\ n > 0
      BY <2>2, ConstantsAssumption DEF ScopeThreads, ScopePooled
    <3>2. cpc'[c] # "out" /\ \A d \in Callers : d # c => cpc'[d] = cpc[d]
      BY <2>2 DEF ScopeThreads, ScopePooled, IInv, TypeOK
    <3>3. (cpc'[c] # "out") = (n > 0)
      BY <3>1, <3>2
    <3> QED
      BY <3>1, <3>2, <3>3, AbsBegin
  <2>3. CASE NotifyOne(c) \/ AwaitDone(c) \/ SpuriousCaller(c)
    BY <2>3, AbsStutter DEF NotifyOne, AwaitDone, SpuriousCaller, scopeVars, IInv, TypeOK
  <2>4. CASE DrainPanics(c) \/ ThreadsJoined(c)
    BY <2>4, AbsReturn
  <2>5. ASSUME NEW i \in threads[c], NEW err \in BOOLEAN, ThreadRun(c, i, err)
        PROVE  [Abstract!Next]_(Abstract!vars)
    <3>1. i \in (1..njobs[c]) \ ran[c]
      BY <2>5, ThreadRunStep
    <3>2. /\ cpc[c] # "out" /\ UNCHANGED <<cpc, njobs>>
          /\ \A d \in Callers : d # c => ran'[d] = ran[d]
          /\ ran'[c] = ran[c] \union {i}
      BY <2>5 DEF ThreadRun, IInv, TypeOK
    <3> QED
      BY <3>1, <3>2, AbsRun
  <2> QED
    BY <1>1, <2>1, <2>2, <2>3, <2>4, <2>5 DEF CallerStep
<1>2. ASSUME NEW w \in Workers, WorkerStep(w) PROVE [Abstract!Next]_(Abstract!vars)
  <2>1. CASE PopJob(w) \/ WorkerWait(w) \/ SpuriousWorker(w) \/ RecordPanic(w)
    BY <2>1, AbsStutter
    DEF PopJob, WorkerWait, SpuriousWorker, RecordPanic, callVars, scopeVars
  <2>2. CASE CountDone(w)
    <3>1. \A d \in Callers : cpc[d] = "out" <=> cpc'[d] = "out"
      BY <2>2, JobFields DEF CountDone, ForCall, IInv, TypeOK
    <3>2. UNCHANGED <<njobs, ran>>
      BY <2>2 DEF CountDone
    <3> QED
      BY <3>1, <3>2, AbsStutter
  <2>3. ASSUME NEW err \in BOOLEAN, RunJob(w, err) PROVE [Abstract!Next]_(Abstract!vars)
    <3> DEFINE c == wjob[w].caller
               i == wjob[w].idx
    <3>1. c \in Callers
      BY JobFields DEF IInv
    <3>2. Current(wjob[w]) /\ InPool(c) /\ i \in (1..njobs[c]) \ ran[c]
      BY <2>3, RunStep
    <3>3. cpc[c] # "out" /\ UNCHANGED <<cpc, njobs>>
      BY <2>3, <3>2 DEF RunJob, InPool, callVars
    <3>4. ran'[c] = ran[c] \union {i} /\ \A d \in Callers : d # c => ran'[d] = ran[d]
      BY <2>3, <3>1, <3>2 DEF RunJob, ForCall, IInv, TypeOK
    <3> HIDE DEF c, i
    <3> QED
      BY <3>1, <3>2, <3>3, <3>4, AbsRun
  <2> QED
    BY <1>2, <2>1, <2>2, <2>3 DEF WorkerStep
<1>3. CASE UNCHANGED vars
  BY <1>3, AbsStutter DEF vars, callVars, scopeVars
<1> QED
  BY <1>1, <1>2, <1>3 DEF Next

\* scope_run implements a fork-join scope: each job runs exactly once, within
\* its call, and the call returns only after all of them.
THEOREM Refinement == Spec => ForkJoinSpec
<1>1. Init => Abstract!Init
  <2> SUFFICES ASSUME Init PROVE Abstract!Init
    OBVIOUS
  <2>1. AbsOpen = [c \in Callers |-> FALSE]
    BY DEF Init, AbsOpen
  <2>2. AbsTodo = [c \in Callers |-> {}]
    BY DEF Init, AbsTodo
  <2> QED
    BY <2>1, <2>2 DEF Abstract!Init, AbsOpen, AbsTodo
<1> QED
  BY <1>1, Invariance, AbsStep, PTL DEF Spec, ForkJoinSpec, Abstract!Spec

-----------------------------------------------------------------------------
(* The store handle pool.                                                  *)

\* At most one thread goes through the shared attribute _current.
SingleWith == \A s, t \in WithThreads : s = t

\* No handle is idle twice.
Distinct == \A i, j \in 1..Len(handleQueue) : handleQueue[i] = handleQueue[j] => i = j

\* Only the with thread writes _current, and between its two uses of the
\* attribute it still names the handle it borrowed.
CurrentInv ==
  \A t \in Threads :
    /\ pc[t] \in {"enter", "bind", "clear"} => t \in WithThreads
    /\ t \in WithThreads /\ pc[t] \in {"bind", "use"} => current = mine[t]

\* Idle handles are thrown away only by close.
DrainClosed == \A t \in Threads : pc[t] = "drain" => closed

\* What a step may do to the handles.
HandlesInv == Distinct /\ OneBorrower /\ NoLeak

HandleInv == PoolTypeOK /\ Distinct /\ OneBorrower /\ NoLeak /\ CurrentInv /\ DrainClosed

-----------------------------------------------------------------------------
\* __init__ opens pool_size handles, a number.
LEMMA SizeType == PoolSize \in Nat
  BY PoolAssumption, FS_CardinalityType DEF PoolSize

\* __init__ puts every handle into the queue once.
LEMMA HandleInvInit == PoolInit => HandleInv
<1> SUFFICES ASSUME PoolInit PROVE HandleInv
  OBVIOUS
<1>1. /\ handleQueue \in Seq(Handles) /\ Len(handleQueue) = PoolSize
      /\ \A i, j \in 1..PoolSize : handleQueue[i] = handleQueue[j] => i = j
      /\ \A h \in Handles : \E i \in 1..PoolSize : handleQueue[i] = h
  BY SizeType DEF PoolInit
<1>2. PoolTypeOK
  BY <1>1 DEF PoolInit, PoolTypeOK, Labels
<1>3. Distinct /\ NoLeak
  BY <1>1 DEF Distinct, NoLeak, Idle
<1>4. OneBorrower /\ CurrentInv /\ DrainClosed
  BY DEF PoolInit, OneBorrower, Borrowing, CurrentInv, DrainClosed
<1> QED
  BY <1>2, <1>3, <1>4 DEF HandleInv

\* Taking the last handle leaves the others where they are.
LEMMA PopFacts ==
  ASSUME PoolTypeOK, Distinct, handleQueue # <<>>, NEW q,
         q = SubSeq(handleQueue, 1, Len(handleQueue) - 1)
  PROVE  /\ handleQueue[Len(handleQueue)] \in Handles
         /\ q \in Seq(Handles) /\ Len(q) = Len(handleQueue) - 1
         /\ \A i \in 1..Len(q) : i \in 1..Len(handleQueue) /\ q[i] = handleQueue[i]
         /\ \A i \in 1..Len(q) : q[i] # handleQueue[Len(handleQueue)]
         /\ \A i \in 1..Len(handleQueue) : i = Len(handleQueue) \/ i \in 1..Len(q)
<1>1. /\ handleQueue \in Seq(Handles) /\ Len(handleQueue) \in Nat /\ Len(handleQueue) > 0
      /\ Len(handleQueue) \in 1..Len(handleQueue)
  BY DEF PoolTypeOK
<1>2. /\ q \in Seq(Handles) /\ Len(q) = Len(handleQueue) - 1
      /\ \A i \in 1..Len(q) : q[i] = handleQueue[i]
  <2> DEFINE n == Len(handleQueue) - 1
  <2>1. n \in Int /\ 1 \in Int /\ n >= 0 /\ \A i \in 1..n : handleQueue[i] \in Handles
    BY <1>1
  <2>2. q = SubSeq(handleQueue, 1, n)
    OBVIOUS
  <2> HIDE DEF n
  <2>3. /\ SubSeq(handleQueue, 1, n) \in Seq(Handles)
        /\ Len(SubSeq(handleQueue, 1, n)) = IF 1 <= n THEN n - 1 + 1 ELSE 0
        /\ \A i \in 1..(n - 1 + 1) : SubSeq(handleQueue, 1, n)[i] = handleQueue[1 + i - 1]
    BY <2>1, SubSeqProperties
  <2>4. Len(q) = n /\ n - 1 + 1 = n /\ \A i \in 1..n : 1 + i - 1 = i
    BY <2>1, <2>2, <2>3
  <2> QED
    BY <2>2, <2>3, <2>4 DEF n
<1>3. \A i \in 1..Len(q) : i \in 1..Len(handleQueue) /\ i # Len(handleQueue)
  BY <1>1, <1>2
<1>4. \A i \in 1..Len(q) : q[i] # handleQueue[Len(handleQueue)]
  BY <1>1, <1>2, <1>3 DEF Distinct
<1>5. handleQueue[Len(handleQueue)] \in Handles
  BY <1>1
<1>6. \A i \in 1..Len(handleQueue) : i = Len(handleQueue) \/ i \in 1..Len(q)
  BY <1>1, <1>2
<1> QED
  BY <1>2, <1>3, <1>4, <1>5, <1>6

\* Steps of one thread that leave the queue alone and neither take nor give
\* back a handle.
LEMMA KeepStep ==
  ASSUME HandleInv, NEW t \in Threads,
         UNCHANGED handleQueue, closed => closed',
         \A s \in Threads : s # t => pc'[s] = pc[s] /\ mine'[s] = mine[s],
         Borrowing(t) <=> Borrowing(t)',
         Borrowing(t) => mine'[t] = mine[t]
  PROVE  Distinct' /\ OneBorrower' /\ NoLeak'
<1>1. \A s \in Threads : Borrowing(s) <=> Borrowing(s)'
  BY DEF Borrowing
<1>2. \A s \in Threads : Borrowing(s) => mine'[s] = mine[s]
  OBVIOUS
<1>3. \A h : Idle(h) <=> Idle(h)'
  BY DEF Idle
<1>4. Distinct'
  BY DEF HandleInv, Distinct
<1>5. OneBorrower'
  BY <1>1, <1>2, <1>3 DEF HandleInv, OneBorrower
<1>6. NoLeak'
  BY <1>1, <1>2, <1>3 DEF HandleInv, NoLeak, PoolTypeOK
<1> QED
  BY <1>4, <1>5, <1>6

\* get and get_nowait: the handle moves from the queue to the thread.
LEMMA HandlePopStep ==
  ASSUME HandleInv, NEW t \in Threads, Pop(t), Goto(t, "got"), ~Borrowing(t), closed' = closed
  PROVE  Distinct' /\ OneBorrower' /\ NoLeak'
<1> DEFINE top == handleQueue[Len(handleQueue)]
<1>1. /\ handleQueue # <<>> /\ handleQueue' = SubSeq(handleQueue, 1, Len(handleQueue) - 1)
      /\ mine' = [mine EXCEPT ![t] = top] /\ pc' = [pc EXCEPT ![t] = "got"]
  BY DEF Pop, Goto
<1>2. /\ top \in Handles
      /\ handleQueue' \in Seq(Handles) /\ Len(handleQueue') = Len(handleQueue) - 1
      /\ \A i \in 1..Len(handleQueue') : i \in 1..Len(handleQueue) /\ handleQueue'[i] = handleQueue[i]
      /\ \A i \in 1..Len(handleQueue') : handleQueue'[i] # top
      /\ \A i \in 1..Len(handleQueue) : i = Len(handleQueue) \/ i \in 1..Len(handleQueue')
  BY <1>1, PopFacts DEF HandleInv
<1>3. Idle(top)
  BY <1>1 DEF Idle, HandleInv, PoolTypeOK
<1> HIDE DEF top
<1>4. /\ mine'[t] = top /\ Borrowing(t)'
      /\ \A s \in Threads : s # t =>
           mine'[s] = mine[s] /\ (Borrowing(s) <=> Borrowing(s)')
  BY <1>1 DEF Borrowing, HandleInv, PoolTypeOK
<1>5. \A h \in Handles : Idle(h)' <=> Idle(h) /\ h # top
  BY <1>2 DEF Idle, top
<1>6. Distinct'
  BY <1>2 DEF HandleInv, Distinct
<1>7. OneBorrower'
  BY <1>2, <1>3, <1>4, <1>5 DEF HandleInv, OneBorrower
<1>8. NoLeak'
  BY <1>2, <1>4, <1>5 DEF HandleInv, NoLeak
<1> QED
  BY <1>6, <1>7, <1>8

\* put: the handle moves back.
LEMMA PutStep ==
  ASSUME HandleInv, NEW t \in Threads, Put(t)
  PROVE  Distinct' /\ OneBorrower' /\ NoLeak'
<1> DEFINE h0 == mine[t]
<1>1. /\ pc[t] = "put" /\ Borrowing(t) /\ h0 \in Handles /\ ~Idle(h0)
      /\ handleQueue' = Append(handleQueue, h0) /\ closed' = closed
      /\ ~Borrowing(t)'
      /\ \A s \in Threads : s # t =>
           mine'[s] = mine[s] /\ (Borrowing(s) <=> Borrowing(s)')
  BY DEF Put, Goto, Borrowing, HandleInv, OneBorrower, PoolTypeOK
<1>2. /\ handleQueue \in Seq(Handles) /\ Len(handleQueue) \in Nat
      /\ Len(handleQueue') = Len(handleQueue) + 1 /\ handleQueue'[Len(handleQueue) + 1] = h0
      /\ \A i \in 1..Len(handleQueue) : handleQueue'[i] = handleQueue[i] /\ i \in 1..Len(handleQueue')
      /\ \A i \in 1..Len(handleQueue') : i = Len(handleQueue) + 1 \/ i \in 1..Len(handleQueue)
      /\ Len(handleQueue) + 1 \in 1..Len(handleQueue')
  BY <1>1 DEF HandleInv, PoolTypeOK
<1> HIDE DEF h0
<1>3. \A h : Idle(h)' <=> Idle(h) \/ h = h0
  BY <1>2 DEF Idle
<1>4. Distinct'
  BY <1>1, <1>2 DEF HandleInv, Distinct, Idle
<1>5. OneBorrower'
  BY <1>1, <1>3 DEF HandleInv, OneBorrower, h0
<1>6. NoLeak'
  BY <1>1, <1>3 DEF HandleInv, NoLeak, h0
<1> QED
  BY <1>4, <1>5, <1>6

\* Types are preserved, one variable at a time.
LEMMA HandleTypeStep == HandleInv /\ [PoolNext]_poolVars => PoolTypeOK'
<1> SUFFICES ASSUME HandleInv, [PoolNext]_poolVars PROVE PoolTypeOK'
  OBVIOUS
<1> DEFINE MaybeHandle == Handles \union {NoHandle}
<1>0. /\ handleQueue \in Seq(Handles) /\ closed \in BOOLEAN /\ current \in MaybeHandle
      /\ pc \in [Threads -> Labels] /\ mine \in [Threads -> MaybeHandle]
      /\ borrowed \in Nat /\ ops \in [Threads -> Nat] /\ NoHandle \in MaybeHandle
  BY DEF HandleInv, PoolTypeOK
<1> SUFFICES ASSUME NEW t \in Threads,
                    \/ Acquire(t) \/ Close(t)
                    \/ AcquireStep(t) \/ WithStep(t) \/ ReleaseStep(t) \/ CloseStep(t)
             PROVE  PoolTypeOK'
  <2>1. CASE UNCHANGED poolVars
    BY <2>1, <1>0 DEF poolVars, PoolTypeOK
  <2> QED
    BY <2>1 DEF PoolNext
<1> USE DEF AcquireStep, WithStep, ReleaseStep, CloseStep
<1>1. \A l \in Labels : Goto(t, l) => pc' \in [Threads -> Labels]
  BY <1>0 DEF Goto
<1>2. /\ {"out", "get", "blocked", "got", "enter", "bind", "use"} \subseteq Labels
      /\ {"clear", "release", "put", "count", "close", "drain"} \subseteq Labels
      /\ AfterRelease(t) \in Labels
  BY DEF Labels, AfterRelease
<1>3. pc' \in [Threads -> Labels]
  <2>1. \/ pc' = pc
        \/ \E l \in Labels : Goto(t, l)
    <3>1. CASE Acquire(t) \/ Close(t) \/ CloseStep(t)
      BY <3>1, <1>2 DEF Acquire, Close, SetClosed, Drain
    <3>2. CASE AcquireStep(t)
      BY <3>2, <1>2 DEF TryGet, BlockingGet, CountAcquire
    <3>3. CASE WithStep(t)
      BY <3>3, <1>2 DEF EnterStore, EnterReturn, ExitLoad, ExitClear
    <3>4. CASE ReleaseStep(t)
      BY <3>4, <1>2 DEF CallRelease, Release, Put, CountRelease
    <3> QED
      BY <3>1, <3>2, <3>3, <3>4
  <2> QED
    BY <1>0, <1>1, <2>1
<1>4. handleQueue' \in Seq(Handles) /\ mine' \in [Threads -> MaybeHandle]
  <2> DEFINE top == handleQueue[Len(handleQueue)]
  <2>1. CASE Pop(t)
    <3>1. top \in MaybeHandle /\ handleQueue' \in Seq(Handles)
      BY <2>1, PopFacts DEF HandleInv, Pop
    <3> HIDE DEF MaybeHandle
    <3> QED
      BY <2>1, <3>1, <1>0 DEF Pop
  <2>2. CASE Put(t)
    <3>1. mine[t] \in Handles
      BY <2>2 DEF HandleInv, OneBorrower, Borrowing, Put
    <3>2. handleQueue' \in Seq(Handles)
      BY <3>1, <2>2, <1>0, AppendProperties DEF Put
    <3> HIDE DEF MaybeHandle
    <3> QED
      BY <2>2, <3>2, <1>0 DEF Put
  <2>3. CASE Drain(t)
    BY <2>3, <1>0, PopFacts DEF HandleInv, Drain
  <2>4. CASE ~Pop(t) /\ ~Put(t) /\ ~Drain(t)
    <3>1. handleQueue' = handleQueue
      BY <2>4 DEF Acquire, Close, SetClosed, TryGet, BlockingGet, CountAcquire, EnterStore,
                  EnterReturn, ExitLoad, ExitClear, CallRelease, Release, CountRelease
    <3>2. \/ mine' = mine
          \/ mine' = [mine EXCEPT ![t] = current]
          \/ mine' = [mine EXCEPT ![t] = NoHandle]
      BY <2>4 DEF Acquire, Close, SetClosed, TryGet, BlockingGet, CountAcquire, EnterStore,
                  EnterReturn, ExitLoad, ExitClear, CallRelease, Release, CountRelease
    <3> HIDE DEF MaybeHandle
    <3> QED
      BY <3>1, <3>2, <1>0
  <2> QED
    BY <2>1, <2>2, <2>3, <2>4
<1>5. closed' \in BOOLEAN /\ current' \in MaybeHandle
  <2>1. /\ closed' = closed \/ closed' = TRUE
        /\ current' = current \/ current' = mine[t] \/ current' = NoHandle
    BY DEF Acquire, Close, SetClosed, Drain, TryGet, BlockingGet, CountAcquire, EnterStore,
           EnterReturn, ExitLoad, ExitClear, CallRelease, Release, Put, CountRelease
  <2> HIDE DEF MaybeHandle
  <2> QED
    BY <2>1, <1>0
<1>6. borrowed' \in Nat /\ ops' \in [Threads -> Nat]
  <2>1. /\ borrowed' = borrowed \/ borrowed' = borrowed + 1
           \/ borrowed' = (IF borrowed = 0 THEN 0 ELSE borrowed - 1)
        /\ ops' = ops \/ ops' = [ops EXCEPT ![t] = ops[t] + 1]
    BY DEF Acquire, Close, SetClosed, Drain, TryGet, BlockingGet, CountAcquire, EnterStore,
           EnterReturn, ExitLoad, ExitClear, CallRelease, Release, Put, CountRelease
  <2> QED
    BY <2>1, <1>0
<1> QED
  BY <1>3, <1>4, <1>5, <1>6 DEF PoolTypeOK

\* _current is a private variable of the only with thread.
LEMMA CurrentStep == SingleWith /\ HandleInv /\ [PoolNext]_poolVars => CurrentInv' /\ DrainClosed'
<1> SUFFICES ASSUME SingleWith, HandleInv, [PoolNext]_poolVars PROVE CurrentInv' /\ DrainClosed'
  OBVIOUS
<1> USE PoolAssumption DEF HandleInv, CurrentInv, DrainClosed, PoolTypeOK, Goto
<1>1. ASSUME NEW t \in Threads, Acquire(t) \/ Close(t) \/ CloseStep(t)
      PROVE  CurrentInv' /\ DrainClosed'
  BY <1>1 DEF Acquire, Close, CloseStep, SetClosed, Drain
<1>2. ASSUME NEW t \in Threads, AcquireStep(t) PROVE CurrentInv' /\ DrainClosed'
  BY <1>2 DEF AcquireStep, TryGet, BlockingGet, CountAcquire, Pop
<1>3. ASSUME NEW t \in Threads, WithStep(t) PROVE CurrentInv' /\ DrainClosed'
  BY <1>3 DEF WithStep, EnterStore, EnterReturn, ExitLoad, ExitClear, SingleWith
<1>4. ASSUME NEW t \in Threads, ReleaseStep(t) PROVE CurrentInv' /\ DrainClosed'
  BY <1>4 DEF ReleaseStep, CallRelease, Release, Put, CountRelease, AfterRelease
<1>5. CASE UNCHANGED poolVars
  BY <1>5 DEF poolVars
<1> QED
  BY <1>1, <1>2, <1>3, <1>4, <1>5 DEF PoolNext

LEMMA HandleInvStep == SingleWith /\ HandleInv /\ [PoolNext]_poolVars => HandleInv'
<1> SUFFICES ASSUME SingleWith, HandleInv, [PoolNext]_poolVars PROVE HandleInv'
  OBVIOUS
<1> USE DEF HandlesInv
<1>1. ASSUME NEW t \in Threads,
             Acquire(t) \/ Close(t) \/ SetClosed(t) \/ CountAcquire(t) \/ EnterStore(t)
             \/ ExitClear(t) \/ CallRelease(t) \/ CountRelease(t)
      PROVE  HandlesInv'
  <2>1. /\ UNCHANGED <<handleQueue, mine>> /\ (closed => closed')
        /\ \A s \in Threads : s # t => pc'[s] = pc[s]
        /\ Borrowing(t) <=> Borrowing(t)'
    BY <1>1 DEF Acquire, Close, SetClosed, CountAcquire, EnterStore, ExitClear, CallRelease,
                CountRelease, AfterRelease, Goto, Borrowing, HandleInv, PoolTypeOK
  <2> QED
    BY <2>1, KeepStep
<1>2. ASSUME NEW t \in Threads, EnterReturn(t) \/ ExitLoad(t) PROVE HandlesInv'
  <2>1. t \in WithThreads /\ current = mine[t] /\ mine[t] \in Handles
    BY <1>2 DEF EnterReturn, ExitLoad, HandleInv, CurrentInv, OneBorrower, Borrowing
  <2>2. /\ UNCHANGED <<handleQueue, closed>>
        /\ \A s \in Threads : s # t => pc'[s] = pc[s] /\ mine'[s] = mine[s]
        /\ Borrowing(t) <=> Borrowing(t)'
        /\ mine'[t] = mine[t]
    BY <1>2, <2>1, PoolAssumption
    DEF EnterReturn, ExitLoad, Goto, Borrowing, HandleInv, PoolTypeOK
  <2> QED
    BY <2>2, KeepStep
<1>3. ASSUME NEW t \in Threads, TryGet(t) \/ BlockingGet(t) PROVE HandlesInv'
  <2>1. ~Borrowing(t) /\ closed' = closed
    BY <1>3 DEF TryGet, BlockingGet, Borrowing
  <2>2. CASE Pop(t) /\ Goto(t, "got")
    BY <2>1, <2>2, HandlePopStep
  <2>3. CASE ~(Pop(t) /\ Goto(t, "got"))
    <3>1. /\ UNCHANGED <<handleQueue, mine>> /\ ~Borrowing(t)'
          /\ \A s \in Threads : s # t => pc'[s] = pc[s]
      BY <1>3, <2>3 DEF TryGet, BlockingGet, Goto, Borrowing, HandleInv, PoolTypeOK
    <3> QED
      BY <2>1, <3>1, KeepStep
  <2> QED
    BY <2>2, <2>3
<1>4. ASSUME NEW t \in Threads, Release(t) PROVE HandlesInv'
  <2>1. CASE ~closed
    <3>1. /\ UNCHANGED <<handleQueue, closed, mine>> /\ (Borrowing(t) <=> Borrowing(t)')
          /\ \A s \in Threads : s # t => pc'[s] = pc[s]
      BY <1>4, <2>1 DEF Release, Goto, Borrowing, HandleInv, PoolTypeOK
    <3> QED
      BY <3>1, KeepStep
  <2>2. CASE closed
    <3>1. /\ UNCHANGED <<handleQueue, closed>> /\ ~Borrowing(t)'
          /\ \A s \in Threads : s # t => pc'[s] = pc[s] /\ mine'[s] = mine[s]
      BY <1>4, <2>2 DEF Release, AfterRelease, Goto, Borrowing, HandleInv, PoolTypeOK
    <3>2. \A s \in Threads : Borrowing(s)' => s # t /\ Borrowing(s) /\ mine'[s] = mine[s]
      BY <3>1 DEF Borrowing
    <3> QED
      BY <2>2, <3>1, <3>2 DEF HandleInv, Distinct, OneBorrower, NoLeak, Idle
  <2> QED
    BY <2>1, <2>2
<1>5. ASSUME NEW t \in Threads, Drain(t) PROVE HandlesInv'
  <2>1. closed /\ UNCHANGED <<closed, mine>>
    BY <1>5 DEF Drain, HandleInv, DrainClosed
  <2>2. \A s \in Threads : Borrowing(s)' => Borrowing(s)
    BY <1>5 DEF Drain, Goto, Borrowing, HandleInv, PoolTypeOK
  <2>3. /\ \A i \in 1..Len(handleQueue') : i \in 1..Len(handleQueue) /\ handleQueue'[i] = handleQueue[i]
    BY <1>5, PopFacts DEF Drain, HandleInv
  <2> QED
    BY <2>1, <2>2, <2>3 DEF HandleInv, Distinct, OneBorrower, NoLeak, Idle
<1>6. ASSUME NEW t \in Threads, Put(t) PROVE HandlesInv'
  BY <1>6, PutStep
<1>7. ASSUME UNCHANGED poolVars PROVE HandlesInv'
  <2>1. UNCHANGED <<handleQueue, closed, pc, mine>>
    BY <1>7 DEF poolVars
  <2>2. \A h : Idle(h)' <=> Idle(h)
    BY <2>1 DEF Idle
  <2>3. \A s \in Threads : Borrowing(s)' <=> Borrowing(s)
    BY <2>1 DEF Borrowing
  <2>4. Distinct' /\ OneBorrower'
    BY <2>1, <2>2, <2>3 DEF HandleInv, Distinct, OneBorrower
  <2>5. NoLeak'
    BY <2>1, <2>2, <2>3 DEF HandleInv, NoLeak
  <2> QED
    BY <2>4, <2>5
<1> HIDE DEF HandlesInv
<1>8. ASSUME NEW t \in Threads,
             \/ Acquire(t) \/ Close(t)
             \/ AcquireStep(t) \/ WithStep(t) \/ ReleaseStep(t) \/ CloseStep(t)
      PROVE  HandlesInv'
  BY <1>8, <1>1, <1>2, <1>3, <1>4, <1>5, <1>6
  DEF AcquireStep, WithStep, ReleaseStep, CloseStep
<1>9. HandlesInv'
  BY <1>7, <1>8 DEF PoolNext
<1> QED
  BY <1>9, HandleTypeStep, CurrentStep DEF HandleInv, HandlesInv

\* With at most one with thread, every other thread borrowing explicitly:
\* one borrower per handle, and no handle is lost while the pool is open.
THEOREM BorrowsExclusive == SingleWith => (PoolSpec => [](OneBorrower /\ NoLeak))
<1> SUFFICES ASSUME SingleWith PROVE PoolSpec => [](OneBorrower /\ NoLeak)
  OBVIOUS
<1>1. HandleInv /\ [PoolNext]_poolVars => HandleInv'
  BY HandleInvStep
<1>2. HandleInv => OneBorrower /\ NoLeak
  BY DEF HandleInv
<1> QED
  BY <1>1, <1>2, HandleInvInit, PTL DEF PoolSpec

\* With at most one with user, every local variable, the attribute and the queue
\* hold what the code expects to find there (pool.py 74-140).
THEOREM HandlesTyped == SingleWith => (PoolSpec => []PoolTypeOK)
<1> SUFFICES ASSUME SingleWith PROVE PoolSpec => []PoolTypeOK
  OBVIOUS
<1>1. HandleInv /\ [PoolNext]_poolVars => HandleInv'
  BY HandleInvStep
<1>2. HandleInv => PoolTypeOK
  BY DEF HandleInv
<1> QED
  BY <1>1, <1>2, HandleInvInit, PTL DEF PoolSpec
=============================================================================
