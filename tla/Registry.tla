------------------------------ MODULE Registry ------------------------------
(***************************************************************************)
(* The table registry Database (python/engramdb/tables.py), shared by the  *)
(* handler threads of the service.  It has no lock: one action is what the *)
(* interpreter does without a switch, a look into a dictionary or a change *)
(* of it.  Store.close is a no-op in the native binding, a pool that is    *)
(* closed refuses every later fetch (see StorePool).                       *)
(***************************************************************************)
EXTENDS Naturals, Sequences

CONSTANTS Handlers,  \* the threads that use the registry
          Tables,    \* keys: a table's name and layout
          MaxUses    \* bound: calls

ASSUME RegistryAssumption == MaxUses \in Nat

VARIABLES
  registry,   \* _stores and _pools: entries in the order of their insertion
  made,       \* how many stores and pools were made; they are numbered
  shut,       \* the pools that are closed
  step,       \* step[t]: where t is in its call
  key,        \* key[t]: the dictionary and the table t's call is about
  object,     \* object[t]: the store or pool t has made, or was given
  cursor,     \* cursor[t]: the iterator of t's close: the size it found, its place
  uses,       \* calls begun
  closeRaised \* history: a close has raised

registryVars == <<registry, made, shut, step, key, object, cursor, uses, closeRaised>>

Dictionaries == {"store", "pool"}

\* What a thread has outside of calls.
NoKey    == [kind |-> "store", table |-> "none"]
NoCursor == [size |-> 0, next |-> 1]

RegistryInit ==
  /\ registry = [k \in Dictionaries |-> <<>>]
  /\ made = 0 /\ shut = {} /\ uses = 0 /\ closeRaised = FALSE
  /\ step = [t \in Handlers |-> "out"]
  /\ key = [t \in Handlers |-> NoKey]
  /\ object = [t \in Handlers |-> 0]
  /\ cursor = [t \in Handlers |-> NoCursor]

StepTo(t, l) == step' = [step EXCEPT ![t] = l]

\* A call returns or raises.
Leave(t) ==
  /\ StepTo(t, "out")
  /\ key' = [key EXCEPT ![t] = NoKey]
  /\ object' = [object EXCEPT ![t] = 0]
  /\ cursor' = [cursor EXCEPT ![t] = NoCursor]

\* The places of the entry for table: one or none.
Places(kind, table) == {i \in DOMAIN registry[kind] : registry[kind][i].table = table}

Begin(t) == step[t] = "out" /\ uses < MaxUses /\ uses' = uses + 1

-----------------------------------------------------------------------------
(* open_store, open_pool, and the fetch through a pool                     *)

\* if key not in self._pools
Open(t, kind, table) ==
  /\ Begin(t)
  /\ key' = [key EXCEPT ![t] = [kind |-> kind, table |-> table]]
  /\ StepTo(t, IF Places(kind, table) = {} THEN "make" ELSE "find")
  /\ UNCHANGED <<registry, made, shut, object, cursor, closeRaised>>

\* The constructor opens the table.
Make(t) ==
  /\ step[t] = "make"
  /\ made' = made + 1
  /\ object' = [object EXCEPT ![t] = made + 1]
  /\ StepTo(t, "insert")
  /\ UNCHANGED <<registry, shut, key, cursor, uses, closeRaised>>

\* The constructor raises.
MakeRaises(t) ==
  /\ step[t] = "make"
  /\ Leave(t)
  /\ UNCHANGED <<registry, made, shut, uses, closeRaised>>

\* The assignment replaces an entry another thread has inserted meanwhile.
Insert(t) ==
  LET entry  == [table |-> key[t].table, object |-> object[t]]
      places == Places(key[t].kind, key[t].table) IN
  /\ step[t] = "insert"
  /\ registry' = [registry EXCEPT ![key[t].kind] =
       IF places = {} THEN Append(@, entry)
       ELSE [i \in 1..Len(@) |-> IF i \in places THEN entry ELSE @[i]]]
  /\ StepTo(t, "find")
  /\ UNCHANGED <<made, shut, key, object, cursor, uses, closeRaised>>

\* The entry is looked up again.
Find(t) ==
  /\ step[t] = "find"
  /\ \E i \in Places(key[t].kind, key[t].table) :
       object' = [object EXCEPT ![t] = registry[key[t].kind][i].object]
  /\ StepTo(t, "use")
  /\ UNCHANGED <<registry, made, shut, key, cursor, uses, closeRaised>>

\* KeyError: a close has cleared the dictionary since.
FindNothing(t) ==
  /\ step[t] = "find"
  /\ Places(key[t].kind, key[t].table) = {}
  /\ Leave(t)
  /\ UNCHANGED <<registry, made, shut, uses, closeRaised>>

\* The fetch ends; through a closed pool it raises.
Finish(t) ==
  /\ step[t] = "use"
  /\ Leave(t)
  /\ UNCHANGED <<registry, made, shut, uses, closeRaised>>

-----------------------------------------------------------------------------
(* close                                                                   *)

\* An iterator over the values of a dictionary.
Iterate(t, kind) ==
  /\ key' = [key EXCEPT ![t] = [kind |-> kind, table |-> "none"]]
  /\ cursor' = [cursor EXCEPT ![t] = [size |-> Len(registry[kind]), next |-> 1]]
  /\ StepTo(t, "loop")

\* close goes through the stores first.
CloseDatabase(t) ==
  /\ Begin(t)
  /\ Iterate(t, "store")
  /\ UNCHANGED <<registry, made, shut, object, closeRaised>>

\* The iterator finds the dictionary at the size it had at its start.
SameSize(t) == Len(registry[key[t].kind]) = cursor[t].size

\* RuntimeError: dictionary changed size during iteration.
CloseRaises(t) ==
  /\ step[t] = "loop" /\ ~SameSize(t)
  /\ closeRaised' = TRUE
  /\ Leave(t)
  /\ UNCHANGED <<registry, made, shut, uses>>

\* One turn of the loop closes one entry.
CloseOne(t) ==
  /\ step[t] = "loop" /\ SameSize(t) /\ cursor[t].next <= cursor[t].size
  /\ shut' = IF key[t].kind = "pool"
             THEN shut \cup {registry["pool"][cursor[t].next].object} ELSE shut
  /\ cursor' = [cursor EXCEPT ![t].next = @ + 1]
  /\ UNCHANGED <<registry, made, step, key, object, uses, closeRaised>>

CloseLoopEnds(t) ==
  /\ step[t] = "loop" /\ SameSize(t) /\ cursor[t].next > cursor[t].size
  /\ StepTo(t, "clear")
  /\ UNCHANGED <<registry, made, shut, key, object, cursor, uses, closeRaised>>

\* self._stores.clear(), and on to the pools.
ClearStores(t) ==
  /\ step[t] = "clear" /\ key[t].kind = "store"
  /\ registry' = [registry EXCEPT !["store"] = <<>>]
  /\ Iterate(t, "pool")
  /\ UNCHANGED <<made, shut, object, uses, closeRaised>>

\* MUTANT of ClearPools: the pools are closed and kept.
KeepPools(t) ==
  /\ step[t] = "clear" /\ key[t].kind = "pool"
  /\ Leave(t)
  /\ UNCHANGED <<registry, made, shut, uses, closeRaised>>

\* self._pools.clear()
ClearPools(t) ==
  /\ step[t] = "clear" /\ key[t].kind = "pool"
  /\ registry' = [registry EXCEPT !["pool"] = <<>>]
  /\ Leave(t)
  /\ UNCHANGED <<made, shut, uses, closeRaised>>

-----------------------------------------------------------------------------
OpenStep(t)  == Make(t) \/ MakeRaises(t) \/ Insert(t) \/ Find(t) \/ FindNothing(t) \/ Finish(t)
EndStep(t) == CloseRaises(t) \/ CloseOne(t) \/ CloseLoopEnds(t) \/ ClearStores(t) \/ ClearPools(t)

RegistryNext ==
  \E t \in Handlers : \/ \E kind \in Dictionaries, table \in Tables : Open(t, kind, table)
                      \/ CloseDatabase(t) \/ OpenStep(t) \/ EndStep(t)

RegistrySpec == RegistryInit /\ [][RegistryNext]_registryVars

-----------------------------------------------------------------------------
(* Properties.                                                             *)

\* A close is at the pools.
ClosingPools(t) == step[t] \in {"loop", "clear"} /\ key[t].kind = "pool"

Cached(kind) == {registry[kind][i].object : i \in 1..Len(registry[kind])}

\* close forgets every pool it closes (tables.py 85-91), so the next fetch makes a
\* usable one, whatever opens and other closes happen meanwhile: a closed pool
\* stays in the registry only while a close is at the pools, or after a close has
\* raised.
ClosedPoolsForgotten ==
  Cached("pool") \cap shut # {} => closeRaised \/ \E t \in Handlers : ClosingPools(t)

\* What tables.py 56 says of open_pool ("Open (and cache) a thread-safe StorePool
\* for a named table"): while nothing is closed, the threads that use one table
\* share one pool.
OnePoolPerTable ==
  shut = {} =>
    \A s, t \in Handlers :
      (/\ step[s] = "use" /\ step[t] = "use"
       /\ key[s] = key[t] /\ key[s].kind = "pool") => object[s] = object[t]
=============================================================================
