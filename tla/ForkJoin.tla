------------------------------ MODULE ForkJoin ------------------------------
(***************************************************************************)
(* What scope_run promises its callers, stated without a pool, a queue or  *)
(* a counter: the semantics of std::thread::scope                          *)
(* (crates/engramdb-io/src/pool.rs, lines 174-176).  A call hands over n   *)
(* jobs; each job runs exactly once, in any order and at any time while    *)
(* the call is open; the call closes only when none is left to run.        *)
(***************************************************************************)
EXTENDS Naturals

CONSTANTS Callers,   \* threads that call scope_run
          MaxJobs    \* bound: jobs of one call

VARIABLES open,      \* open[c]: c is inside scope_run
          todo       \* todo[c]: jobs of c's call that have not run yet

vars == <<open, todo>>

Init == /\ open = [c \in Callers |-> FALSE]
        /\ todo = [c \in Callers |-> {}]

\* A call with n jobs opens.  A call without jobs returns at once.
Call(c, n) == /\ ~open[c]
              /\ open' = [open EXCEPT ![c] = n > 0]
              /\ todo' = [todo EXCEPT ![c] = 1..n]

\* One of the jobs that have not run yet runs, to its end.
Run(c, i) == /\ open[c]
             /\ i \in todo[c]
             /\ todo' = [todo EXCEPT ![c] = @ \ {i}]
             /\ UNCHANGED open

\* The call closes once every job has run.
Return(c) == /\ open[c]
             /\ todo[c] = {}
             /\ open' = [open EXCEPT ![c] = FALSE]
             /\ UNCHANGED todo

Next == \E c \in Callers :
          \/ \E n \in 0..MaxJobs : Call(c, n)
          \/ \E i \in todo[c] : Run(c, i)
          \/ Return(c)

Spec == Init /\ [][Next]_vars
=============================================================================
