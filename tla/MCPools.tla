------------------------------- MODULE MCPools -------------------------------
(* ScopePool and StorePool for TLC, one after the other in one run: the pool  *)
(* of workers and the pool of handles share no state.                         *)
EXTENDS ScopePool, StorePool

VARIABLE part \* which of the two this behaviour is about

\* The other one waits in one of its initial states.
PoolsInit ==
  /\ part \in {"workers", "handles"} /\ Init /\ PoolInit
  /\ part = "workers" =>
       handleQueue = CHOOSE s \in [1..PoolSize -> Handles] :
                       \A h \in Handles : \E i \in 1..PoolSize : s[i] = h

PoolsNext ==
  /\ \/ part = "workers" /\ Next /\ UNCHANGED poolVars
     \/ part = "handles" /\ PoolNext /\ UNCHANGED vars
  /\ UNCHANGED part

\* The part that waits is idle, and its fairness asks nothing.
PoolsSpec ==
  PoolsInit /\ [][PoolsNext]_<<part, vars, poolVars>> /\ Fairness /\ PoolFairness
==============================================================================
