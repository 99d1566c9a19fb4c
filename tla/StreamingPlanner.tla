--------------------------- MODULE StreamingPlanner --------------------------
(***************************************************************************)
(* What to read ahead: PrefetchPlan (crates/engramdb-io/src/batch.rs), the *)
(* badges of a call by shard, and StreamingPlanner (planner.rs), a window  *)
(* over the badges of the latest tokens, which puts a badge in the plan    *)
(* when it enters the window.                                              *)
(*                                                                         *)
(* A badge is <<shard, badge>>.  A plan keeps the badges of all shards in  *)
(* one sequence, in the order they were entered.                           *)
(***************************************************************************)
EXTENDS Layout, Sorting

CONSTANT WindowBadges \* badges the window keeps from call to call

ASSUME WindowAssumption == WindowBadges \in Nat

VARIABLES
  queue,  \* the badges of the window, oldest first
  window, \* the same badges as a set
  sent    \* history: every badge that was planned, in that order

plannerVars == <<queue, window, sent>>

BadgeKey(k) == <<ShardOf(k), BadgeOf(k)>>
BadgeKeys(rows) == [i \in DOMAIN rows |-> BadgeKey(rows[i])]

EmptyPlan == [badges |-> <<>>, count |-> 0]

\* entry, for one new badge after the other
Entered(plan, new) == [badges |-> plan.badges \o new, count |-> plan.count + Len(new)]

\* MUTANT of Settled: the count is not taken again.
SettledCount(plan) == [plan EXCEPT !.badges = SetToSeq(ToSet(@))]

\* settle: ascending, without duplicates
Settled(plan) ==
  LET once == SortedBy(ToSet(plan.badges),
                       LAMBDA a, b : a[1] < b[1] \/ (a[1] = b[1] /\ a[2] < b[2]))
  IN  [badges |-> once, count |-> Len(once)]

\* PrefetchPlan::build
Built(rows) == Settled([badges |-> BadgeKeys(rows), count |-> Len(rows)])

InPlan(plan, b) == b \in ToSet(plan.badges)

PlannerInit == queue = <<>> /\ window = {} /\ sent = <<>>

\* The rows whose badge is not in the window yet, once for each such badge.
NewBadges(rows) ==
  LET badges == BadgeKeys(rows)
      first  == {i \in DOMAIN badges :
                   badges[i] \notin window /\ \A j \in 1..(i - 1) : badges[j] # badges[i]}
      places == SortedBy(first, <)
  IN  [n \in DOMAIN places |-> badges[places[n]]]

\* MUTANT of Surplus: the window is trimmed to one badge more.
SurplusLess(n) == IF n > WindowBadges + 1 THEN n - WindowBadges - 1 ELSE 0

\* How many of n badges have to leave.
Surplus(n) == IF n > WindowBadges THEN n - WindowBadges ELSE 0

\* MUTANT of Oldest: the newest badges leave.
OldestLast(q, n) == SubSeq(q, Len(q) - n + 1, Len(q))

\* The badges that leave first: the front of the queue.
Oldest(q, n) == SubSeq(q, 1, n)

\* advance, which adds the new badges to the plan of the caller and then trims
\* the window.  It returns the number of new badges.
Advance(rows) ==
  LET new == NewBadges(rows)
      all == queue \o new
      n   == Surplus(Cardinality(window \cup ToSet(new))) IN
  /\ queue' = SubSeq(all, n + 1, Len(all))
  /\ window' = (window \cup ToSet(new)) \ ToSet(Oldest(all, n))
  /\ sent' = sent \o new

-----------------------------------------------------------------------------
(* Properties.                                                             *)

\* The set is the queue without its order and the queue repeats no badge; were
\* it shorter, the loop that trims the window (planner.rs 46-50) would never end.
WindowIsQueue ==
  /\ window = ToSet(queue) /\ Cardinality(window) = Len(queue)
  /\ Cardinality(window) <= WindowBadges

\* A badge is planned again only after WindowBadges others were (planner.rs 5,
\* a badge in the window is not read again).
SentOnceInWindow ==
  \A m, n \in 1..Len(sent) : m < n /\ sent[m] = sent[n] =>
    Cardinality({sent[i] : i \in (m + 1)..(n - 1)}) >= WindowBadges
=============================================================================
