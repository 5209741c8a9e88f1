------------------------ MODULE CandidateEnumeration ------------------------
(***************************************************************************)
(* EnumerateCandidatePaths (search.cpp): Yen's algorithm, or the staged    *)
(* legs of a required transit, as the loop around PathSearch's searches.   *)
(* enum.phase says where the loop is; a phase that ends in "ing" waits for *)
(* a search.                                                               *)
(***************************************************************************)
EXTENDS PathSearch

NoResult == [ok |-> FALSE, failure |-> "NO_STRUCTURAL_PATH", limit |-> FALSE,
             truncated |-> FALSE, paths |-> << >>]

\* options: source, destination, k, wanted, max_hops, stages, member_limit,
\* fail_closed.  Plan fills them in; the locals start empty.
NewEnumeration(options) ==
  [phase |-> "start", options |-> options, result |-> NoResult,
   accepted |-> << >>, pending |-> {}, spur |-> 0,
   combination |-> 0, stage |-> 1, combined |-> << >>, best |-> {},
   leg_failure |-> "REQUIRED_NODE_MISSING"]

NoEnumeration == [phase |-> "idle"]

\* Go to another phase without a search.
Goto(next) == enum' = next /\ call' = Idle /\ UNCHANGED <<view, budget>>

Finish(result)  == Goto([enum EXCEPT !.phase = "done", !.result = result])
Fail(code)      == Finish([NoResult EXCEPT !.failure = code])
FailLimit(code) == Finish([NoResult EXCEPT !.failure = code, !.limit = TRUE])

\* Start a search with budget b and wait for it in another phase.
Search(next, b, src, dst, hops, banned_nodes, banned_links) ==
  /\ enum' = next
  /\ BeginSearch(b, src, dst, hops, banned_nodes, banned_links)
  /\ UNCHANGED view

\* Mutant: every leg gets the whole bound.
HopsLeft_Whole(used) == enum.options.max_hops
HopsLeft(used) == IF enum.options.max_hops = NoHopBound THEN NoHopBound
                  ELSE enum.options.max_hops - used

StageSizes     == [i \in DOMAIN enum.options.stages |->
                     Len(enum.options.stages[i].alternatives)]
Product(sizes) == FoldLeft(LAMBDA p, n : p * n, 1, sizes)
Total(sizes)   == FoldLeft(LAMBDA p, n : p + n, 0, sizes)

EnumStart ==
  /\ enum.phase = "start"
  /\ LET o == enum.options IN
     IF o.stages = << >>
     THEN Search([enum EXCEPT !.phase = "firsting"], budget,
                 o.source, o.destination, o.max_hops, {}, {})
     ELSE IF o.k > 1 THEN Fail("UNSUPPORTED_REQUEST")
     ELSE IF \/ Product(StageSizes) > view.limits.max_transit_combinations
             \/ Total(StageSizes) > view.limits.max_transit_alternatives
     THEN FailLimit("CONSTRAINT_COUNT_EXCEEDED")
     ELSE Goto([enum EXCEPT !.phase = "combination"])

-----------------------------------------------------------------------------
(* Yen's algorithm.                                                        *)

First ==
  /\ enum.phase = "firsting"
  /\ SearchOver
  /\ LET o == SearchOutcome IN
     IF o.limit THEN FailLimit("WORK_BUDGET_EXHAUSTED")
     ELSE IF ~o.found
     THEN Fail(IF o.overflow THEN "COST_OVERFLOW" ELSE "NO_STRUCTURAL_PATH")
     ELSE IF AccumulatePathCost(view, o.path.hops) = Overflow THEN Fail("COST_OVERFLOW")
     ELSE Goto([enum EXCEPT !.phase = "spur", !.accepted = <<o.path>>])

CompliantPaths(paths, limit, fail_closed) ==
  Kept(paths, LAMBDA p : DomainMemberLimitCompliant(snapshot, p, limit, fail_closed))

\* The member limit filters what was accepted, then max_candidates cuts it.
YenResult(accepted) ==
  LET o         == enum.options
      active    == o.member_limit # Absent
      kept      == IF active THEN CompliantPaths(accepted, o.member_limit, o.fail_closed)
                   ELSE accepted
      paths     == SubSeq(kept, 1, Min({Len(kept), o.k}))
  IN  [NoResult EXCEPT !.ok = paths # << >>, !.paths = paths,
                       !.truncated = /\ active
                                     /\ Len(paths) < o.k
                                     /\ Len(accepted) >= o.wanted]

\* Mutant: only the last accepted path is looked at.
SpurBans_LastOnly(previous, spur) == {previous.hops[spur + 1].link}

\* The entries that accepted paths take after the first spur + 1 nodes of previous.
SpurBans(previous, spur) ==
  LET prefix == SubSeq(previous.nodes, 1, spur + 1)
  IN  {p.hops[spur + 1].link : p \in
         {p \in Range(enum.accepted) : /\ Len(p.nodes) > spur + 1
                                       /\ SubSeq(p.nodes, 1, spur + 1) = prefix}}

Best(paths) == CHOOSE p \in paths : \A q \in paths \ {p} : RankedBefore(view, p, q)

\* Mutant: the paths found so far are returned.
OutOfSpurs_Partial ==
  /\ enum' = [enum EXCEPT !.phase = "done", !.result = YenResult(enum.accepted)]
  /\ budget' = Spend(budget, "spurs")
  /\ UNCHANGED <<view, call>>

OutOfSpurs ==
  /\ enum' = [enum EXCEPT !.phase = "done",
                          !.result = [@ EXCEPT !.failure = "WORK_BUDGET_EXHAUSTED",
                                               !.limit = TRUE]]
  /\ budget' = Spend(budget, "spurs")
  /\ UNCHANGED <<view, call>>

\* The head of the two loops: search from the next spur node, or accept the best
\* pending path once every spur node of the last accepted path was searched.
Spur ==
  /\ enum.phase = "spur"
  /\ LET previous == enum.accepted[Len(enum.accepted)]
         spur     == enum.spur
     IN  IF Len(enum.accepted) >= enum.options.wanted
         THEN Finish(YenResult(enum.accepted))
         ELSE IF spur < Len(previous.hops)
         THEN IF budget.spurs = 0
              THEN OutOfSpurs
              ELSE Search([enum EXCEPT !.phase = "spurring"],
                          Spend(budget, "spurs"),
                          previous.nodes[spur + 1], enum.options.destination, HopsLeft(spur),
                          Range(SubSeq(previous.nodes, 1, spur)), SpurBans(previous, spur))
         ELSE IF enum.pending = {} THEN Finish(YenResult(enum.accepted))
         ELSE Goto([enum EXCEPT !.accepted = Append(@, Best(enum.pending)),
                                !.pending = @ \ {Best(enum.pending)},
                                !.spur = 0])

\* A spur path is kept when it is simple, new, and its cost fits.
SpurFound ==
  /\ enum.phase = "spurring"
  /\ SearchOver
  /\ LET o        == SearchOutcome
         previous == enum.accepted[Len(enum.accepted)]
         root     == [nodes |-> SubSeq(previous.nodes, 1, enum.spur + 1),
                      hops  |-> SubSeq(previous.hops, 1, enum.spur)]
         total    == Join(root, o.path)
         kept     == /\ o.found
                     /\ RawPathIsSimple(total)
                     /\ total \notin Range(enum.accepted)
                     /\ AccumulatePathCost(view, total.hops) # Overflow
     IN  IF o.limit THEN FailLimit("WORK_BUDGET_EXHAUSTED")
         ELSE Goto([enum EXCEPT !.phase = "spur", !.spur = @ + 1,
                                !.pending = IF kept THEN @ \cup {total} ELSE @])

-----------------------------------------------------------------------------
(* Required transit: every combination of alternatives, leg by leg.        *)

\* Combination number c in mixed radix, the last stage varying fastest.
Selected(c, i) ==
  LET later == Product(SubSeq(StageSizes, i + 1, Len(StageSizes)))
  IN  enum.options.stages[i].alternatives[((c \div later) % StageSizes[i]) + 1]

Current == enum.combined.nodes[Len(enum.combined.nodes)]

\* Mutant: the same combination is tried again.
NextCombination_Again(leg_failure, best) ==
  Goto([enum EXCEPT !.phase = "combination", !.leg_failure = leg_failure, !.best = best])
NextCombination(leg_failure, best) ==
  Goto([enum EXCEPT !.phase = "combination", !.combination = @ + 1,
                    !.leg_failure = leg_failure, !.best = best])

Combination ==
  /\ enum.phase = "combination"
  /\ IF enum.combination < Product(StageSizes)
     THEN Goto([enum EXCEPT !.phase = "leg", !.stage = 1,
                            !.combined = [nodes |-> <<enum.options.source>>, hops |-> << >>]])
     ELSE IF enum.best = {} THEN Fail(enum.leg_failure)
     ELSE Finish([NoResult EXCEPT !.ok = TRUE, !.paths = SetToSeq(enum.best)])

\* Start the leg to the selected node, or the final leg; nodes of earlier legs
\* are banned.
Leg ==
  /\ enum.phase = "leg"
  /\ LET o       == enum.options
         last    == enum.stage > Len(o.stages)
         target  == IF last THEN o.destination ELSE Selected(enum.combination, enum.stage)
         used    == Len(enum.combined.hops)
         spent   == o.max_hops # NoHopBound /\ used >= o.max_hops
         visited == Range(enum.combined.nodes)
     IN  IF target \notin view.nodes
         THEN NextCombination("REQUIRED_NODE_MISSING", enum.best)
         ELSE IF spent /\ (last => Current # target)
         THEN NextCombination("MAX_HOPS_EXCEEDED", enum.best)
         ELSE Search([enum EXCEPT !.phase = IF last THEN "finaling" ELSE "legging"], budget,
                     Current, target, HopsLeft(used),
                     visited \ (IF last THEN {Current, target} ELSE {Current}), {})

LegFound ==
  /\ enum.phase = "legging"
  /\ SearchOver
  /\ LET o == SearchOutcome IN
     IF o.limit THEN FailLimit("WORK_BUDGET_EXHAUSTED")
     ELSE IF o.found
     THEN Goto([enum EXCEPT !.phase = "leg", !.stage = @ + 1, !.combined = Join(@, o.path)])
     ELSE NextCombination(IF enum.options.stages[enum.stage].kind = "EXACT"
                          THEN "REQUIRED_NODE_MISSING" ELSE "REQUIRED_ANY_SET_UNSATISFIED",
                          enum.best)

FinalFound ==
  /\ enum.phase = "finaling"
  /\ SearchOver
  /\ LET o     == SearchOutcome
         total == Join(enum.combined, o.path)
     IN  IF o.limit THEN FailLimit("WORK_BUDGET_EXHAUSTED")
         ELSE IF ~o.found THEN NextCombination("MAX_HOPS_EXCEEDED", enum.best)
         ELSE IF ~RawPathIsSimple(total) THEN NextCombination(enum.leg_failure, enum.best)
         ELSE IF AccumulatePathCost(view, total.hops) = Overflow
         THEN NextCombination("COST_OVERFLOW", enum.best)
         ELSE NextCombination(enum.leg_failure, {Best(enum.best \cup {total})})

EnumStep == EnumStart \/ Pop \/ First \/ Spur \/ SpurFound
              \/ Combination \/ Leg \/ LegFound \/ FinalFound
=============================================================================
