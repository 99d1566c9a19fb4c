----------------------------- MODULE BadgeGather -----------------------------
(***************************************************************************)
(* All read paths of a sharded table: gather_pp (GatherPp) and the paths   *)
(* that read whole badges, gather_naive, gather_parallel, gather_planned   *)
(* and gather_plan (crates/engramdb-io/src/batch.rs), the last of them     *)
(* with a plan of its own keys or one that StreamingPlanner made, and      *)
(* ShardedStore::gather (crates/engramdb-core/src/store.rs).               *)
(*                                                                         *)
(* A behaviour is one call.  The state of the call that the page-wise path *)
(* has too (keys, threads, out, outcome, clean) is GatherPp's.            *)
(***************************************************************************)
EXTENDS GatherPp, StreamingPlanner

CONSTANTS Methods,    \* the paths a caller may take
          SerialKeys, \* gather_parallel reads that many keys without threads
          MaxTokens,  \* bound: tokens the planner sees before the call
          RowsOfToken \* the rows of a token: sequences of keys

ASSUME BadgeAssumption ==
  /\ Methods \subseteq {"pp", "naive", "parallel", "planned", "plan", "sharded"}
  /\ SerialKeys \in Nat /\ MaxTokens \in Nat
  /\ RowsOfToken \subseteq Seq(Keys)

VARIABLES
  method, \* the path of the call
  walks,  \* the walks over the keys of naive, parallel and sharded
  at,     \* the next key gather_plan looks up in its plan
  groups, \* badges that planned and plan still have to read
  plan,   \* the plan gather_plan is given
  tokens  \* tokens the planner has seen

badgeVars == <<method, walks, at, groups, plan, tokens, plannerVars>>
callVars == <<keys, threads, jobs, results>>
allVars == <<vars, badgeVars>>

GatherInit ==
  /\ Init /\ PlannerInit
  /\ method \in Methods
  /\ method \in {"pp", "parallel"} \/ threads = 1
  /\ walks = <<>> /\ at = 1 /\ groups = {} /\ plan = EmptyPlan /\ tokens = 0

\* The shard files are opened by number: a key behind the table panics.
HasFile(k) == ShardOf(k) \in ShardIds

\* MUTANT of ReadsBadge: a short read is taken for a full one.
ReadsBadgeShort(b, ok) == ok

\* read_exact_at of badge b, which fails at the end of the file.
ReadsBadge(b, ok) == ok /\ Whole(len[b[1]], b[2] * BadgeBytes, BadgeBytes)

\* What the read leaves in buf: up to the end of the file, or buf as it was.
BadgeRead(buf, b, ok) ==
  IF ok THEN Filled(buf, b[1], len[b[1]], b[2] * BadgeBytes, BadgeBytes) ELSE buf

\* The columns of key k in the buffer of its badge.
RowAt(buf, k) == Slice(buf, RowInBadge(k) * RowBytes, Width)

-----------------------------------------------------------------------------
(* naive, parallel and sharded walk over the keys with a buffer that holds *)
(* one badge.  2^32 of store.rs is Half, above every shard and badge.      *)

Half == 1000
NoBadge == Half * Half - 1

ASSUME HalfAssumption == Shards < Half

NewWalk(from, to) ==
  [at |-> from, to |-> to, last |-> <<>>, current |-> NoBadge,
   buf |-> Zeros(BadgeBytes), state |-> "run"]

Threaded == method = "parallel" /\ threads > 1 /\ Len(keys) > SerialKeys

\* Keys of one thread.
KeysOfWalk == DivCeil(Len(keys), threads)

StartWalks ==
  /\ outcome = "called" /\ method \in {"naive", "parallel", "sharded"}
  /\ walks' = IF Threaded
              THEN [j \in 1..DivCeil(Len(keys), KeysOfWalk) |->
                      NewWalk((j - 1) * KeysOfWalk + 1,
                              IF j * KeysOfWalk < Len(keys) THEN j * KeysOfWalk ELSE Len(keys))]
              ELSE <<NewWalk(1, Len(keys))>>
  /\ outcome' = "gathering"
  /\ UNCHANGED <<len, callVars, out, clean, method, at, groups, plan, tokens, plannerVars>>

\* MUTANT of Held: the shard of the badge is not compared.
HeldByBadge(w, k) == w.last # <<>> /\ w.last[2] = BadgeOf(k)

\* Whether the buffer of the walk holds the badge of key k: sharded compares
\* shard and badge with current and current >> 32.
Held(w, k) ==
  IF method = "sharded" THEN BadgeKey(k) = <<w.current, w.current \div Half>>
  ELSE w.last = BadgeKey(k)

\* Once a badge is read the walk notes it.
Remembered(w, k) ==
  [w EXCEPT !.last = BadgeKey(k), !.current = ShardOf(k) * Half + BadgeOf(k)]

\* The next key of walk j is in the buffer, or its badge is read first.
WalkHit(j) ==
  LET w == walks[j]
      k == keys[w.at] IN
  /\ w.state = "run" /\ w.at <= w.to /\ Held(w, k)
  /\ out' = [out EXCEPT ![w.at] = RowAt(w.buf, k)]
  /\ walks' = [walks EXCEPT ![j].at = @ + 1]
  /\ UNCHANGED <<len, callVars, outcome, clean, method, at, groups, plan, tokens, plannerVars>>

WalkRead(j, ok) ==
  LET w == walks[j]
      k == keys[w.at]
      b == BadgeKey(k)
      buf == BadgeRead(w.buf, b, ok) IN
  /\ w.state = "run" /\ w.at <= w.to /\ ~Held(w, k) /\ HasFile(k)
  /\ clean' = (clean /\ ok)
  /\ IF ReadsBadge(b, ok)
     THEN /\ out' = [out EXCEPT ![w.at] = RowAt(buf, k)]
          /\ walks' = [walks EXCEPT ![j] = [Remembered(w, k) EXCEPT !.buf = buf, !.at = @ + 1]]
     ELSE /\ walks' = [walks EXCEPT ![j].buf = buf, ![j].state = "err"]
          /\ UNCHANGED out
  /\ UNCHANGED <<len, callVars, outcome, method, at, groups, plan, tokens, plannerVars>>

WalkNowhere(j) ==
  LET w == walks[j] IN
  /\ w.state = "run" /\ w.at <= w.to /\ ~Held(w, keys[w.at]) /\ ~HasFile(keys[w.at])
  /\ walks' = [walks EXCEPT ![j].state = "panicked"]
  /\ UNCHANGED <<len, callVars, out, outcome, clean, method, at, groups, plan, tokens, plannerVars>>

Ended(w) == w.state # "run" \/ w.at > w.to

\* The scope of the threads ends when all have, and panics if one did; their
\* errors are dropped.  Without threads the walk's own end is the call's.
EndWalks ==
  /\ outcome = "gathering" /\ walks # <<>>
  /\ \A j \in 1..Len(walks) : Ended(walks[j])
  /\ outcome' = IF \E j \in 1..Len(walks) : walks[j].state = "panicked" THEN "panic"
                ELSE IF ~Threaded /\ walks[1].state = "err" THEN "err" ELSE "ok"
  /\ UNCHANGED <<len, callVars, out, clean, badgeVars>>

-----------------------------------------------------------------------------
(* planned and plan read each badge once, in the order of a hash map.      *)

IndexesOf(b) == {i \in 1..Len(keys) : BadgeKey(keys[i]) = b}

StartPlanned ==
  /\ outcome = "called" /\ method = "planned"
  /\ groups' = ToSet(BadgeKeys(keys))
  /\ outcome' = "gathering"
  /\ UNCHANGED <<len, callVars, out, clean, method, walks, at, plan, tokens, plannerVars>>

\* Before the call a token's rows go through the planner, into a fresh plan or
\* into the one that is there.
Stream(rows, fresh) ==
  /\ outcome = "called" /\ method = "plan" /\ tokens < MaxTokens
  /\ tokens > 0 \/ keys = <<>>
  /\ plan' = Entered(IF fresh THEN EmptyPlan ELSE plan, NewBadges(rows))
  /\ Advance(rows)
  /\ tokens' = tokens + 1
  /\ keys' = rows
  /\ out' = [i \in 1..Len(rows) |-> [x \in 1..Width |-> Zero]]
  /\ UNCHANGED <<len, threads, jobs, results, outcome, clean, method, walks, at, groups>>

\* The call for the latest token with its plan, or for any keys with a plan
\* built from them.
StartPlan ==
  /\ outcome = "called" /\ method = "plan"
  /\ plan' = IF tokens = 0 THEN Built(keys) ELSE Settled(plan)
  /\ outcome' = "gathering"
  /\ UNCHANGED <<len, callVars, out, clean, method, walks, at, groups, tokens, plannerVars>>

PlanLookup == outcome = "gathering" /\ method = "plan" /\ at <= Len(keys)

PlannedKey ==
  /\ PlanLookup /\ InPlan(plan, BadgeKey(keys[at]))
  /\ groups' = groups \cup {BadgeKey(keys[at])}
  /\ at' = at + 1
  /\ UNCHANGED <<len, callVars, out, outcome, clean, method, walks, plan, tokens, plannerVars>>

\* A key outside the plan is read on its own, at k * rb of its shard's file.
\* Rows wider than the caller's do not fit, and the copy panics.
UnplannedKey(ok) ==
  LET k == keys[at]
      s == ShardOf(k)
      off == k * RowBytes IN
  /\ PlanLookup /\ ~InPlan(plan, BadgeKey(k))
  /\ IF ~HasFile(k) THEN outcome' = "panic" /\ UNCHANGED <<out, at>>
     ELSE IF ~(ok /\ Whole(len[s], off, RowBytes)) THEN outcome' = "err" /\ UNCHANGED <<out, at>>
     ELSE IF RowBytes # Width THEN outcome' = "panic" /\ UNCHANGED <<out, at>>
     ELSE /\ out' = [out EXCEPT ![at] =
                       Slice(Filled(Zeros(RowBytes), s, len[s], off, RowBytes), 0, RowBytes)]
          /\ at' = at + 1 /\ UNCHANGED outcome
  /\ clean' = (clean /\ ok)
  /\ UNCHANGED <<len, callVars, method, walks, groups, plan, tokens, plannerVars>>

\* A row of the group comes from the buffer its badge was read into.  planned
\* drops the error of the read, plan returns it.
GroupRead(b, ok) ==
  /\ outcome = "gathering" /\ b \in groups /\ ~PlanLookup
  /\ groups' = groups \ {b}
  /\ IF b[1] \notin ShardIds
     THEN outcome' = "panic" /\ UNCHANGED <<out, clean>>
     ELSE /\ clean' = (clean /\ ok)
          /\ IF method = "plan" /\ ~ReadsBadge(b, ok)
             THEN outcome' = "err" /\ UNCHANGED out
             ELSE /\ UNCHANGED outcome
                  /\ out' = [i \in DOMAIN out |->
                               IF i \in IndexesOf(b)
                               THEN RowAt(BadgeRead(Zeros(BadgeBytes), b, ok), keys[i])
                               ELSE out[i]]
  /\ UNCHANGED <<len, callVars, method, walks, at, plan, tokens, plannerVars>>

EndGroups ==
  /\ outcome = "gathering" /\ method \in {"planned", "plan"} /\ groups = {} /\ ~PlanLookup
  /\ outcome' = "ok"
  /\ UNCHANGED <<len, callVars, out, clean, badgeVars>>

GatherNext ==
  \/ method = "pp" /\ Next /\ UNCHANGED badgeVars
  \/ StartWalks
  \/ \E j \in 1..Len(walks) :
       \/ WalkHit(j) \/ WalkNowhere(j)
       \/ \E ok \in BOOLEAN : WalkRead(j, ok)
  \/ EndWalks
  \/ StartPlanned
  \/ \E rows \in RowsOfToken, fresh \in BOOLEAN : Stream(rows, fresh)
  \/ StartPlan \/ PlannedKey
  \/ \E ok \in BOOLEAN : UnplannedKey(ok)
  \/ \E b \in groups, ok \in BOOLEAN : GroupRead(b, ok)
  \/ EndGroups

GatherSpec == GatherInit /\ [][GatherNext]_allVars

-----------------------------------------------------------------------------
(* Properties.                                                             *)

Answered == outcome = "ok" /\ InTable

\* Types, and the two halves of the planner's window agree.
GatherTypeOK ==
  /\ outcome \in {"called", "gathering", "ok", "err", "panic"}
  /\ Len(out) = Len(keys)
  /\ \A i \in DOMAIN out : out[i] \in [1..Width -> Bytes]
  /\ \A j \in 1..Len(walks) :
       /\ walks[j].state \in {"run", "err", "panicked"}
       /\ walks[j].at \in 1..(walks[j].to + 1) /\ walks[j].to <= Len(keys)
       /\ DOMAIN walks[j].buf = 0..(BadgeBytes - 1)
  /\ groups \subseteq ToSet(BadgeKeys(keys))
  /\ plan.count = Len(plan.badges)
  /\ method = "pp" => TypeOK
  /\ WindowIsQueue

\* gather_pp returns the rows of its keys if no read fails (batch.rs 165-248), the
\* first row of each job where columns have more than one byte.
PpRowsExact == method = "pp" => RowsExact

\* A key gather_plan finds the right bytes for: planned, or of the first shard.
PlanServes(k) == InPlan(plan, BadgeKey(k)) \/ ShardOf(k) = 0

\* Keys for which a path returns the bytes of other rows: plan reads a key outside
\* its plan as if its shard were the first (batch.rs 301), and sharded takes badge b
\* of shard 0 for badge 0 of shard b (store.rs 38).
OneShard == \A i, j \in 1..Len(keys) : ShardOf(keys[i]) = ShardOf(keys[j])
Mixes(k) ==
  \/ method = "plan" /\ ~PlanServes(k)
  \/ method = "sharded" /\ ~(InTable /\ OneShard)

\* The end of the file may lie within the last badge.
WholeFiles == \A s \in ShardIds : len[s] >= ShardBytes
WholeBadges == \A s \in ShardIds : len[s] >= DivCeil(RowsPerShard, BadgeRows) * BadgeBytes

\* What keeps a path from returning the rows: an error it drops, behind the end of
\* a file for parallel even within the last badge; a key that plan or sharded mix up
\* with others.  naive has no excuse, and pp is GatherPp's.
Excused ==
  \/ method = "planned" /\ ~(clean /\ WholeFiles)
  \/ method = "parallel" /\ Threaded /\ ~(clean /\ WholeBadges)
  \/ \E i \in 1..Len(keys) : Mixes(keys[i])
  \/ method = "pp"

\* A call that succeeds returns the row of every key, repeated keys too: naive
\* and plan whatever fails, the others if no read does (batch.rs 123-163, 250-317,
\* store.rs 29-48).
BadgeRowsExact == Answered /\ ~Excused => Exact

\* Whatever fails, a byte a badge-wise path returns is the right one or was never
\* written, in a failed call too.  That is so for every key of naive, parallel and
\* planned, for the keys plan has in its plan or finds in the first shard, and for
\* the keys of one shard of the table in sharded; the others (Mixes) do get bytes of
\* other rows.  gather_pp may mix the pages of a shard (RowsOrError), never shards.
NeverForeign ==
  /\ method = "pp" => OwnShardOnly
  /\ method # "pp" => \A i \in 1..Len(keys), x \in 1..Width :
       ~Mixes(keys[i]) => out[i][x] \in {Zero, RowOf(keys[i])[x]}
=============================================================================
