----------------------------- MODULE PathSearch -----------------------------
(***************************************************************************)
(* The path search (search.cpp): Searcher::ShortestPath over the eligible  *)
(* view, and EnumerateCandidatePaths on top of it, which runs Yen's K-path *)
(* algorithm, or the staged legs of a required transit.                    *)
(*                                                                         *)
(* One step pops one queue entry and relaxes its adjacency, or is one turn *)
(* of the loop around the searches.  A node's view index is its identifier *)
(* (both are in the same order), and an adjacency entry stands for its     *)
(* index.  A label is a pair <<cost, hops>>.                               *)
(***************************************************************************)
EXTENDS PlanningView

CONSTANT InfiniteHops         \* kInfiniteHops, the largest count of hops
ASSUME InfiniteHopsAssumption == InfiniteHops \in Nat

VARIABLES view,      \* the PlanningView of the request
          budget,    \* WorkBudget: what is left of the three counters
          call,      \* the ShortestPath call in progress
          enum       \* the locals of EnumerateCandidatePaths

searchVars == <<view, budget, call, enum>>

NoHopBound == Absent
Unreached  == <<CostMax, InfiniteHops>>

LexLess(s, t) ==
  \E i \in 1..Min({Len(s), Len(t)}) :
     s[i] < t[i] /\ \A j \in 1..(i - 1) : s[j] = t[j]

-----------------------------------------------------------------------------
(* Paths: [nodes |-> n+1 nodes, hops |-> n adjacency entries].             *)

StaticCost(hops) == FoldLeft(LAMBDA sum, a : CheckedAdd(sum, a.static), 0, hops)
CheckedSum(parts) == FoldLeft(LAMBDA sum, part : CheckedAdd(sum, part), 0, parts)

AccumulatePathCost(v, hops) ==
  LET degraded == Cardinality({i \in DOMAIN hops : hops[i].degraded})
      outside  == Cardinality({i \in DOMAIN hops : hops[i].outside})
      parts    == <<CheckedMul(v.hop_cost, Len(hops)), StaticCost(hops),
                    CheckedMul(v.degraded_penalty, degraded),
                    CheckedMul(v.locality_penalty, outside)>>
  IN  IF Len(hops) > MaxHopCount THEN Overflow
      ELSE CheckedSum(parts)

\* RankedBefore compares cost, hops, node sequence and link sequence in turn.
RankKey(v, p) ==
  <<AccumulatePathCost(v, p.hops), Len(p.hops)>> \o p.nodes
    \o [i \in DOMAIN p.hops |-> p.hops[i].link]

RankedBefore(v, p, q) == LexLess(RankKey(v, p), RankKey(v, q))

RawPathIsSimple(p) == ~HasDuplicate(p.nodes)

Join(p, q) == [nodes |-> p.nodes \o Tail(q.nodes), hops |-> p.hops \o q.hops]

DomainMemberLimitCompliant(s, p, limit, fail_closed) ==
  LET member == [i \in DOMAIN p.hops |-> MembershipOf(s, ForLink(p.hops[i].link))]
  IN  /\ fail_closed => \A i \in DOMAIN member : member[i].known
      /\ \A d \in UNION {member[i].domains : i \in DOMAIN member} :
           Cardinality({i \in DOMAIN member : d \in member[i].domains}) <= limit

-----------------------------------------------------------------------------
(* Searcher.  PlainSearch labels nodes; ExpandedSearch, under a hop bound  *)
(* that can bind, labels (hops, node) pairs.                               *)

Idle == [status |-> "idle"]

Increment(v, a) == CheckedAdd(v.hop_cost, a.traversal)

KeyOf(c, hops, node) == <<IF c.plain THEN 0 ELSE hops, node>>

\* A label equal to CostMax can replace Unreached in PlainSearch only.
Improves(c, label, old) ==
  IF c.plain THEN LexLess(label, old) ELSE label[1] < old[1]

\* Mutant: the counter is not looked at.
Spend_Unguarded(b, counter) == [b EXCEPT ![counter] = @ - 1]

\* SpendState, SpendPush and the spur counter.
Spend(b, counter) == IF b[counter] = 0 THEN [b EXCEPT !.exhausted = TRUE]
                     ELSE [b EXCEPT ![counter] = @ - 1]

\* ShortestPath up to the first pop, with the budget b.
BeginSearch(b, src, dst, hops, banned_nodes, banned_links) ==
  LET plain == hops = NoHopBound \/ hops >= Cardinality(view.nodes) - 1
      keys  == (IF plain THEN {0} ELSE 0..hops) \X view.nodes
      new   == [src |-> src, dst |-> dst, hops |-> hops, plain |-> plain,
                banned_nodes |-> banned_nodes, banned_links |-> banned_links,
                dist |-> << >>, settled |-> {}, queue |-> {}, overflow |-> FALSE,
                status |-> "running"]
      Stop(status) == call' = [new EXCEPT !.status = status]
  IN  CASE src = dst -> Stop("trivial") /\ budget' = b
        [] src # dst /\ hops = 0 -> Stop("none") /\ budget' = b
        [] /\ src # dst /\ hops # 0 /\ ~plain
           /\ (hops + 1) * Cardinality(view.nodes) > view.limits.max_search_states ->
             Stop("limit") /\ budget' = b
        [] OTHER ->
             /\ budget' = Spend(b, "pushes")
             /\ IF budget'.exhausted THEN Stop("limit")
                ELSE call' = [new EXCEPT
                       !.dist = [k \in keys |-> IF k = <<0, src>> THEN <<0, 0>> ELSE Unreached],
                       !.queue = {<<0, 0, src>>}]

\* Mutant: the queue compares the wrong way round.
QueueTop_Inverted(queue) == CHOOSE e \in queue : \A f \in queue \ {e} : LexLess(f, e)
QueueTop(queue) == CHOOSE e \in queue : \A f \in queue \ {e} : LexLess(e, f)

\* One turn of the relaxation loop: r is [call, budget], e the popped entry.
RelaxEdge(r, e, a) ==
  LET c      == r.call
      hops   == e[2] + 1
      cost   == CheckedAdd(e[1], Increment(view, a))
      k      == KeyOf(c, hops, a.to)
      states == Spend(r.budget, "states")
      pushes == Spend(states, "pushes")
      Stop(b) == [call |-> [c EXCEPT !.status = "limit"], budget |-> b]
  IN  IF \/ c.status = "limit"
         \/ a.link \in c.banned_links
         \/ a.to \in c.banned_nodes THEN r
      ELSE IF cost = Overflow THEN [call |-> [c EXCEPT !.overflow = TRUE], budget |-> r.budget]
      ELSE IF states.exhausted THEN Stop(states)
      ELSE IF ~Improves(c, <<cost, hops>>, c.dist[k]) THEN [call |-> c, budget |-> states]
      ELSE IF pushes.exhausted THEN Stop(pushes)
      ELSE [call |-> [c EXCEPT !.dist[k] = <<cost, hops>>,
                               !.queue = @ \cup {<<cost, hops, a.to>>}],
            budget |-> pushes]

\* The relaxation loop over a list of adjacency entries.
Relax(settle, e, edges) == FoldLeft(LAMBDA r, a : RelaxEdge(r, e, a), settle, edges)

\* One turn of the search loop: a settled or stale entry is dropped.
Pop ==
  /\ call.status = "running"
  /\ call.queue # {}
  /\ LET e    == QueueTop(call.queue)
         k    == KeyOf(call, e[2], e[3])
         rest == [call EXCEPT !.queue = @ \ {e}]
         settle == [call |-> [rest EXCEPT !.settled = @ \cup {k}], budget |-> budget]
         edges  == IF call.hops # NoHopBound /\ e[2] >= call.hops THEN << >>
                   ELSE view.adjacency[e[3]]
         relaxed == Relax(settle, e, edges)
     IN  IF k \in call.settled \/ call.dist[k] # <<e[1], e[2]>>
         THEN call' = rest /\ UNCHANGED budget
         ELSE call' = relaxed.call /\ budget' = relaxed.budget
  /\ UNCHANGED <<view, enum>>

\* An entry that continues an exact label at level h to an exact label above it.
Tight(v, c, h, a) ==
  /\ a.link \notin c.banned_links
  /\ a.to \notin c.banned_nodes
  /\ c.dist[KeyOf(c, h + 1, a.to)]
       = <<CheckedAdd(c.dist[KeyOf(c, h, a.from)][1], Increment(v, a)), h + 1>>

\* can_reach at level h: the nodes that an entry leads to a node of the level above.
LevelBelow(v, c, h, above) ==
  {n \in v.nodes : /\ c.dist[KeyOf(c, h, n)][1] < CostMax
                   /\ c.dist[KeyOf(c, h, n)][2] = h
                   /\ \E a \in Range(v.adjacency[n]) : a.to \in above /\ Tight(v, c, h, a)}

\* can_reach, from the target's level down to the source's (element 1).
CanReach(v, c, target) ==
  FoldLeft(LAMBDA levels, i : <<LevelBelow(v, c, target - i, Head(levels))>> \o levels,
           <<{c.dst}>>, [i \in 1..target |-> i])

\* Hop h of the greedy walk: the first tight entry whose end can still reach the
\* target.  The walk stops short where no entry advances it.
Extend(v, c, levels, p, h) ==
  LET next == v.adjacency[p.nodes[Len(p.nodes)]]
      i == SelectInSeq(next, LAMBDA a : a.to \in levels[h + 1] /\ Tight(v, c, h - 1, a))
  IN  IF i = 0 \/ Len(p.hops) < h - 1 THEN p
      ELSE [nodes |-> Append(p.nodes, next[i].to), hops |-> Append(p.hops, next[i])]

GreedyWalk(v, c, levels) ==
  FoldLeft(LAMBDA p, h : Extend(v, c, levels, p, h), [nodes |-> <<c.src>>, hops |-> << >>],
           [h \in 1..(Len(levels) - 1) |-> h])

\* The labels of the destination that a path has: one, or one per hop count.
TargetLabels(c) == {c.dist[k] : k \in {k \in DOMAIN c.dist :
                                         k[2] = c.dst /\ c.dist[k][1] < CostMax}}

SearchOver == call.status # "idle" /\ (call.status = "running" => call.queue = {})

SearchOutcome ==
  LET labels == TargetLabels(call)
      best   == CHOOSE l \in labels : \A m \in labels \ {l} : LexLess(l, m)
      levels == CanReach(view, call, best[2])
      walk   == GreedyWalk(view, call, levels)
      found  == /\ call.status = "running"
                /\ labels # {}
                /\ call.src \in levels[1]
                /\ Len(walk.hops) = best[2]
  IN  [limit |-> call.status = "limit", overflow |-> call.overflow,
       found |-> call.status = "trivial" \/ found,
       path  |-> IF found THEN walk
                 ELSE [nodes |-> <<call.src>>, hops |-> << >>]]
=============================================================================
