------------------------------ MODULE MCService ------------------------------
(* Service and Registry for TLC, one after the other in one run: a connection *)
(* uses the registry only to fetch, and its handler may be any of the threads *)
(* of Registry.                                                               *)
EXTENDS Service, Registry

VARIABLE part \* which of the two this behaviour is about

\* A connection of either server; the registry is Python's.
ServingInit ==
  /\ part \in {"connection", "registry"} /\ Init /\ RegistryInit
  /\ part = "registry" => impl = "python" /\ wire = "frames"

ServingNext ==
  /\ \/ part = "connection" /\ Next /\ UNCHANGED registryVars
     \/ part = "registry" /\ RegistryNext /\ UNCHANGED vars
  /\ UNCHANGED part

\* The fairness of the connection asks nothing of the registry's behaviours.
ServingSpec ==
  ServingInit /\ [][ServingNext]_<<part, vars, registryVars>> /\ Fairness
==============================================================================
