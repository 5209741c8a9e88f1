------------------------------ MODULE Planning ------------------------------
(***************************************************************************)
(* One plan from evidence to answer: a builder publishes a snapshot, and   *)
(* PlannerRuntime::Plan validates a request, resolves its endpoints,       *)
(* builds the view, enumerates and ranks candidates, consults the Path     *)
(* Authority and explains a failure (planner.cpp).  PlannerRuntime.tla     *)
(* models the concurrency around this computation and takes its result as  *)
(* a constant; here the computation itself is modelled and the inputs do   *)
(* not change while it runs.                                               *)
(*                                                                         *)
(* A scenario is [limits, calls, requests, authority]: the planner's       *)
(* limits, for every step the builder calls to choose from, the requests   *)
(* to choose from, and whether a Path Authority is configured.             *)
(***************************************************************************)
EXTENDS CandidateEnumeration

CONSTANT Scenarios            \* a sequence of scenarios

\* The types of what a caller passes in.  A SetView call is SetLinkStates,
\* SetPortStates or SetCapabilities.
Call(c) ==
  CASE c.op = "AddNode"     -> c.arg \in NodeArgs
    [] c.op = "AddEdge"     -> c.arg \in EdgeRecords
    [] c.op = "AddEndpoint" -> c.arg \in EndpointRecords
    [] c.op = "SetView"     ->
         \/ c.field = "link_states" /\ \A x \in Range(c.arg) : x.state \in LinkStateNames
         \/ c.field = "port_states" /\ \A x \in Range(c.arg) : x.state \in PortStateNames
         \/ c.field = "capabilities"
    [] OTHER                -> TRUE

Request(r) ==
  /\ {r.policy.hop_cost, r.policy.degraded_penalty, r.policy.locality_penalty,
      r.max_candidates} \subseteq Nat
  /\ {r.constraints.max_hops, r.constraints.max_members_per_failure_domain}
       \subseteq Nat \cup {Absent}
  /\ r.constraints.required_capabilities \in Seq(Range(r.constraints.required_capabilities))
  /\ r.constraints.required_transit \in Seq(Range(r.constraints.required_transit))
  /\ \A t \in Range(r.constraints.required_transit) : t.alternatives \in Seq(Nat)

ASSUME ScenarioAssumption ==
  \A i \in DOMAIN Scenarios :
    LET s == Scenarios[i] IN
    /\ {s.limits.max_expanded_states, s.limits.max_queue_entries, s.limits.max_spur_searches,
        s.limits.max_enumeration_candidates} \subseteq Nat
    /\ s.limits.max_nodes \in 0..InfiniteHops
    /\ Len(s.calls) \in Nat
    /\ \A j \in 1..Len(s.calls) : \A c \in s.calls[j] : Call(c)
    /\ \A r \in s.requests : Request(r)

VARIABLES scenario,           \* the index of the scenario being played
          step,               \* the next builder call
          stage,              \* "build", "plan", "search" or "done"
          request,
          result

vars == <<builder, snapshot, view, budget, call, enum,
          scenario, step, stage, request, result>>

NoResultYet == [status |-> "NONE"]
S == Scenarios[scenario]

-----------------------------------------------------------------------------
(* The builder's calls.                                                    *)

Invoke(c) ==
  \/ c.op = "AddNode"           /\ AddNode(c.arg)
  \/ c.op = "AddEdge"           /\ AddEdge(c.arg)
  \/ c.op = "AddEndpoint"       /\ AddEndpoint(c.arg)
  \/ c.op = "SetGenerations"    /\ SetGenerations(c.arg)
  \/ c.op = "SetView"           /\ SetView(c.field, c.arg)
  \/ c.op = "SetFailureDomains" /\ SetFailureDomains(c.arg, c.complete)
  \/ c.op = "Skip"              /\ UNCHANGED <<builder, snapshot>>

CallBuilder ==
  /\ stage = "build"
  /\ step <= Len(S.calls)
  /\ \E c \in S.calls[step] : Invoke(c)
  /\ step' = step + 1
  /\ UNCHANGED <<searchVars, scenario, stage, request, result>>

CallBuild ==
  /\ stage = "build"
  /\ step > Len(S.calls)
  /\ Build
  /\ stage' = "plan"
  /\ UNCHANGED <<searchVars, scenario, step, request, result>>

-----------------------------------------------------------------------------
(* Plan up to the view.  An outcome is <<status, primary failure>>.        *)

EndpointFailure(s, ref, unknown, stale) ==
  LET record == FindEndpoint(s, ref.id)
      p == CHOOSE p \in record : TRUE
  IN  IF record = {} THEN <<unknown, "UNKNOWN_ENDPOINT">>
      ELSE IF p.endpoint_class # ref.endpoint_class
      THEN <<"UNSUPPORTED", "UNSUPPORTED_ENDPOINT_CLASS">>
      ELSE IF p.entity_generation # ref.generation
      THEN <<stale, "ENTITY_GENERATION_MISMATCH">>
      ELSE <<OK, OK>>

NodeOf(s, ref) == (CHOOSE p \in FindEndpoint(s, ref.id) : TRUE).node

RuntimeEpoch == IF snapshot.ok THEN snapshot.generations.epoch ELSE 0

\* The identity of the snapshot that was built, its digest: any other number a
\* request expects stands for another snapshot.
SnapshotIdentity == 1

Expects(expected, actual) == expected # Absent /\ expected # actual

Refusal(r, limits) ==
  LET invalid == ValidateRequest(r, limits)
      source  == EndpointFailure(snapshot, r.source, "SOURCE_UNKNOWN", "SOURCE_STALE")
      target  == EndpointFailure(snapshot, r.destination,
                                 "DESTINATION_UNKNOWN", "DESTINATION_STALE")
      gens    == snapshot.generations
  IN  IF invalid # OK THEN <<StatusForValidationCode(invalid), invalid>>
      ELSE IF r.lacks_scope THEN <<"UNAUTHORIZED", "AUTHORITY_SCOPE_INSUFFICIENT">>
      ELSE IF Expects(r.coordinator_epoch, RuntimeEpoch)
      THEN <<"EPOCH_STALE", "EPOCH_MISMATCH">>
      ELSE IF ~snapshot.ok THEN <<"REVALIDATION_REQUIRED", "SNAPSHOT_NOT_AVAILABLE">>
      ELSE IF Expects(r.expected_epoch, gens.epoch) THEN <<"EPOCH_STALE", "EPOCH_MISMATCH">>
      ELSE IF Expects(r.expected_topology, gens.topology)
      THEN <<"TOPOLOGY_STALE", "TOPOLOGY_GENERATION_MISMATCH">>
      ELSE IF Expects(r.expected_snapshot, SnapshotIdentity)
      THEN <<"REVALIDATION_REQUIRED", "STALE_EVIDENCE">>
      ELSE IF source # <<OK, OK>> THEN source
      ELSE target

Answer(status, primary, candidates, truncated) ==
  [status |-> status, primary |-> primary, candidates |-> candidates, truncated |-> truncated]

\* EnumerationOptions.  Only a member limit raises the enumeration ceiling.
Options(r, limits, src, dst) ==
  [source |-> src, destination |-> dst, k |-> r.max_candidates,
   max_hops |-> r.constraints.max_hops, stages |-> r.constraints.required_transit,
   member_limit |-> r.constraints.max_members_per_failure_domain,
   fail_closed |-> r.constraints.fail_closed_on_unknown_domains,
   wanted |-> IF r.constraints.max_members_per_failure_domain = Absent
              THEN r.max_candidates
              ELSE Max({r.max_candidates, limits.max_enumeration_candidates})]

NewBudget(limits) == [states |-> limits.max_expanded_states, pushes |-> limits.max_queue_entries,
                      spurs |-> limits.max_spur_searches, exhausted |-> FALSE]

\* A request from a node to itself, without stages, is answered without a search.
Identity(r, options) ==
  [NewEnumeration(options) EXCEPT !.phase = "done",
     !.result = IF r.policy.allow_zero_hop_self_path
                THEN [NoResult EXCEPT !.ok = TRUE,
                        !.paths = <<[nodes |-> <<options.source>>, hops |-> << >>]>>]
                ELSE [NoResult EXCEPT !.failure = "ZERO_HOP_SELF_PATH_DISALLOWED"]]

Refuse(status, primary) ==
  /\ result' = Answer(status, primary, << >>, FALSE)
  /\ stage' = "done"
  /\ UNCHANGED <<view, budget, enum>>

Plan(r) ==
  LET refusal == Refusal(r, S.limits)
      src     == NodeOf(snapshot, r.source)
      dst     == NodeOf(snapshot, r.destination)
      v       == BuildPlanningView(snapshot, r, S.limits, src, dst)
      options == Options(r, S.limits, src, dst)
  IN  /\ stage = "plan"
      /\ request' = r
      /\ IF refusal # <<OK, OK>> THEN Refuse(refusal[1], refusal[2])
         ELSE IF v.fatal # OK THEN Refuse("CONSTRAINT_UNSATISFIED", v.fatal)
         ELSE /\ view' = v
              /\ budget' = NewBudget(S.limits)
              /\ enum' = IF src = dst /\ options.stages = << >> THEN Identity(r, options)
                         ELSE NewEnumeration(options)
              /\ stage' = "search"
              /\ UNCHANGED result
      /\ UNCHANGED <<builder, snapshot, call, scenario, step>>

Enumerate ==
  /\ stage = "search"
  /\ EnumStep
  /\ UNCHANGED <<builder, snapshot, scenario, step, stage, request, result>>

-----------------------------------------------------------------------------
(* Plan after the enumeration.                                             *)

\* A hop is materialised from the record of its link.
IsWellFormed(p) ==
  /\ NilId \notin {enum.options.source, enum.options.destination}
  /\ Len(p.nodes) = Len(p.hops) + 1
  /\ p.nodes[1] = enum.options.source
  /\ p.nodes[Len(p.nodes)] = enum.options.destination
  /\ \A i \in DOMAIN p.hops :
       /\ p.hops[i].from = p.nodes[i]
       /\ p.hops[i].to = p.nodes[i + 1]
       /\ \E e \in snapshot.edges : /\ e.id = p.hops[i].link
                                  /\ e.layer = request.constraints.layer
                                  /\ NilId \notin {e.id, e.from_port, e.to_port}

\* Cost, well-formedness and simplicity are checked again; what is left is sorted
\* and duplicates are erased.
Ranked ==
  Ordered({p \in Range(enum.result.paths) : /\ AccumulatePathCost(view, p.hops) # Overflow
                                            /\ IsWellFormed(p)
                                            /\ RawPathIsSimple(p)},
          LAMBDA p, q : RankedBefore(view, p, q))

Verdicts == {"VALIDATED", "REJECTED", "UNAVAILABLE", "NOT_REQUESTED"}

StructuralLinks(s, c) ==
  {e \in s.edges : /\ e.layer = c.layer
                   /\ e.id \notin Range(c.forbidden_links)
                   /\ {e.from, e.to} \cap Range(c.forbidden_nodes) = {}}

\* Breadth-first distance that ignores operational state, or Absent.
StructuralHopDistance(s, c, src, dst) ==
  LET links == StructuralLinks(s, c)
      Grow(reached, i) == Append(reached, reached[i] \cup
                            {e.to : e \in {e \in links : e.from \in reached[i]}})
      levels == FoldLeft(Grow, <<{src}>>, [i \in 1..Cardinality(s.nodes) |-> i])
      i == SelectInSeq(levels, LAMBDA reached : dst \in reached)
  IN  IF i = 0 THEN Absent ELSE i - 1

PrimaryFailure(log, structural) ==
  LET order == IF ~structural
               THEN <<"FORBIDDEN_LINK", "FORBIDDEN_PORT", "FORBIDDEN_NODE", "LAYER_MISMATCH">>
               ELSE <<"LINK_STATE_DOWN", "LINK_STATE_FAULTED", "LINK_STATE_RETIRED",
                      "LINK_STATE_REVALIDATION_REQUIRED", "LINK_STATE_UNKNOWN",
                      "LINK_STATE_DEGRADED_DISALLOWED", "PORT_ADMIN_DISABLED", "PORT_DRAINING",
                      "PORT_MAINTENANCE", "PORT_RETIRED", "PORT_SUPERSEDED",
                      "PORT_REVALIDATION_REQUIRED", "PORT_UNKNOWN", "COST_OVERFLOW",
                      "CAPABILITY_UNKNOWN", "CAPABILITY_INSUFFICIENT",
                      "FAILURE_DOMAIN_FORBIDDEN", "FAILURE_DOMAIN_UNKNOWN",
                      "FAILURE_DOMAIN_CLASS_FORBIDDEN", "FAILURE_DOMAIN_MEMBER_LIMIT_EXCEEDED",
                      "FORBIDDEN_NODE", "FORBIDDEN_LINK", "FORBIDDEN_PORT">>
      i == SelectInSeq(order, LAMBDA code : LogContains(log, code))
  IN  IF i = 0 THEN "NO_STRUCTURAL_PATH" ELSE order[i]

StatusForFailure(code) ==
  CASE code \in {"REQUIRED_NODE_MISSING", "REQUIRED_ANY_SET_UNSATISFIED", "MAX_HOPS_EXCEEDED",
                 "ZERO_HOP_SELF_PATH_DISALLOWED", "FAILURE_DOMAIN_MEMBER_LIMIT_EXCEEDED"}
         -> "CONSTRAINT_UNSATISFIED"
    [] code \in {"COST_OVERFLOW", "WORK_BUDGET_EXHAUSTED", "CONSTRAINT_COUNT_EXCEEDED"}
         -> "RESOURCE_LIMIT"
    [] code = "UNSUPPORTED_REQUEST" -> "UNSUPPORTED"
    [] OTHER -> "NO_PATH"

\* The answer when no candidate is left: a failure of the enumeration that has a
\* name of its own, then the hop bound, then what the log says was excluded.
Explanation ==
  LET c        == request.constraints
      distance == StructuralHopDistance(snapshot, c, enum.options.source, enum.options.destination)
      failed   == ~enum.result.ok
      limit    == budget.exhausted \/ (failed /\ enum.result.limit)
      named    == IF failed THEN enum.result.failure
                  ELSE IF budget.exhausted THEN "WORK_BUDGET_EXHAUSTED"
                  ELSE "NO_STRUCTURAL_PATH"
      primary  == IF named # "NO_STRUCTURAL_PATH" THEN named
                  ELSE IF distance # Absent /\ c.max_hops # Absent /\ distance > c.max_hops
                  THEN "MAX_HOPS_EXCEEDED"
                  ELSE PrimaryFailure(view.log, distance # Absent)
  IN  Answer(IF limit THEN "RESOURCE_LIMIT" ELSE StatusForFailure(primary),
             primary, << >>, enum.result.truncated)

Candidate(p, verdict) ==
  [path |-> p, authority |-> verdict,
   currentness |-> IF view.provisional THEN "REVALIDATION_REQUIRED" ELSE "CURRENT"]

Conclusion(candidates) ==
  IF candidates = << >> THEN Explanation
  ELSE Answer(IF enum.result.truncated THEN "TRUNCATED_BY_LIMIT"
              ELSE IF view.provisional THEN "REVALIDATION_REQUIRED" ELSE "PLANNED",
              OK, candidates, enum.result.truncated)

Label(paths, verdict) == [i \in DOMAIN paths |-> Candidate(paths[i], verdict)]

\* The candidates the authority lets through.
Admits(mode, x) == \/ x.authority = "VALIDATED"
                   \/ x.authority \in {"UNAVAILABLE", "NOT_REQUESTED"} /\ mode = "BEST_EFFORT"
Admitted(mode, candidates) == Kept(candidates, LAMBDA x : Admits(mode, x))

\* The authority is asked about every candidate; its answers are not ours.
Consult(mode, paths) ==
  \E answer \in [DOMAIN paths -> Verdicts] :
     LET kept == Admitted(mode, [i \in DOMAIN paths |-> Candidate(paths[i], answer[i])])
     IN  result' = IF kept = << >> /\ \E i \in DOMAIN answer : answer[i] = "REJECTED"
                   THEN Answer("REVALIDATION_REQUIRED", "AUTHORITY_VALIDATION_REJECTED",
                               << >>, enum.result.truncated)
                   ELSE Conclusion(kept)

Conclude ==
  LET mode == request.policy.authority_validation IN
  /\ stage = "search"
  /\ enum.phase = "done"
  /\ IF mode = "NONE" \/ Ranked = << >> THEN result' = Conclusion(Label(Ranked, "NOT_REQUESTED"))
     ELSE IF S.authority THEN Consult(mode, Ranked)
     ELSE IF mode = "REQUIRED"
     THEN result' = Answer("UNSUPPORTED", "AUTHORITY_VALIDATION_UNAVAILABLE", << >>, FALSE)
     ELSE result' = Conclusion(Label(Ranked, "UNAVAILABLE"))
  /\ stage' = "done"
  /\ UNCHANGED <<builder, snapshot, searchVars, scenario, step, request>>

Done == stage = "done" /\ UNCHANGED vars

-----------------------------------------------------------------------------
Init ==
  /\ scenario \in DOMAIN Scenarios
  /\ step = 1
  /\ stage = "build"
  /\ builder = NewBuilder(S.limits)
  /\ snapshot = NoSnapshot
  /\ view = << >>
  /\ budget = NewBudget(S.limits)
  /\ call = Idle
  /\ enum = NoEnumeration
  /\ request = << >>
  /\ result = NoResultYet

Next == CallBuilder \/ CallBuild \/ (\E r \in S.requests : Plan(r))
          \/ Enumerate \/ Conclude \/ Done

Spec == Init /\ [][Next]_vars

-----------------------------------------------------------------------------
(* The reference: which links a request may use, and every simple path     *)
(* over them, stated without the order in which the code filters them.     *)

UsableLinkStates(r) ==
  {"UP"} \cup (IF r.policy.allow_degraded_links THEN {"DEGRADED"} ELSE {})
         \cup (IF Diagnostic(r) THEN {"REVALIDATION_REQUIRED"} ELSE {})
         \cup (IF Provisional(r) THEN {"UNKNOWN"} ELSE {})

UsablePortStates(r) ==
  {"UP"} \cup (IF r.policy.allow_draining_ports THEN {"DRAINING"} ELSE {})
         \cup (IF r.policy.allow_maintenance_ports THEN {"MAINTENANCE"} ELSE {})
         \cup (IF Diagnostic(r) THEN {"DRAINING", "MAINTENANCE", "REVALIDATION_REQUIRED"} ELSE {})
         \cup (IF Provisional(r) THEN {"UNKNOWN"} ELSE {})

Proven(s, subject, q) ==
  /\ <<subject, q.capability>> \in DOMAIN s.capabilities
  /\ SatisfiedBy(q, s.capabilities[<<subject, q.capability>>])

Compliant(s, c, subject) ==
  LET ids == Range(c.forbidden_failure_domains)
      classes == Range(c.forbidden_failure_domain_classes)
      m == MembershipOf(s, subject)
  IN  /\ \A d \in m.domains : d \notin ids /\ s.classes[d] \notin classes
      /\ m.known \/ ids \cup classes = {} \/ ~c.fail_closed_on_unknown_domains

UsableNode(s, r, id) ==
  /\ id \notin Range(r.constraints.forbidden_nodes)
  /\ Compliant(s, r.constraints, ForNode(id))
  /\ \A q \in Range(r.constraints.required_capabilities) :
       q.scope = "EVERY_NODE" => Proven(s, ForNode(id), q)

UsableLink(s, r, e) ==
  LET c == r.constraints
      ports == {e.from_port, e.to_port}
  IN  /\ e.layer = c.layer
      /\ e.id \notin Range(c.forbidden_links)
      /\ ports \cap Range(c.forbidden_ports) = {}
      /\ UsableNode(s, r, e.from) /\ UsableNode(s, r, e.to)
      /\ LinkStateOf(s, e.id) \in UsableLinkStates(r)
      /\ \A p \in ports : PortStateOf(s, p) \in UsablePortStates(r)
      /\ \A x \in {ForLink(e.id)} \cup {ForPort(p) : p \in ports} : Compliant(s, c, x)
      /\ \A q \in Range(c.required_capabilities) :
           /\ q.scope = "EVERY_LINK" => Proven(s, ForLink(e.id), q)
           /\ q.scope = "EVERY_PORT" => \A p \in ports : Proven(s, ForPort(p), q)

\* The simple paths from src to dst over a set of links, as sequences of links.
SimplePaths(links, src, dst) ==
  LET inner == UNION {{e.from, e.to} : e \in links} \ {src, dst}
      Over(nodes) ==
        LET used == {e \in links : \E i \in 1..(Len(nodes) - 1) :
                                     e.from = nodes[i] /\ e.to = nodes[i + 1]}
        IN  {h \in [1..(Len(nodes) - 1) -> used] :
               \A i \in DOMAIN h : h[i].from = nodes[i] /\ h[i].to = nodes[i + 1]}
  IN  UNION {Over(<<src>> \o p \o <<dst>>) : p \in SetToAllKPermutations(inner)}

\* The cost in the exact arithmetic of the integers.
ExactCost(s, r, path) ==
  LET Hop(e) == r.policy.hop_cost + e.static_cost
                  + (IF LinkStateOf(s, e.id) = "DEGRADED" THEN r.policy.degraded_penalty ELSE 0)
                  + (IF r.policy.locality_scope # << >> /\ e.to \notin Range(r.policy.locality_scope)
                     THEN r.policy.locality_penalty ELSE 0)
  IN  FoldLeft(LAMBDA sum, e : sum + Hop(e), 0, path)

Links(path) == [i \in DOMAIN path |-> path[i].id]
ExactKey(s, r, path) ==
  <<ExactCost(s, r, path), Len(path)>> \o [i \in DOMAIN path |-> path[i].to] \o Links(path)

WithinMemberLimit(s, c, path) ==
  c.max_members_per_failure_domain # Absent =>
    LET m == [i \in DOMAIN path |-> MembershipOf(s, ForLink(path[i].id))] IN
    /\ c.fail_closed_on_unknown_domains => \A i \in DOMAIN m : m[i].known
    /\ \A d \in DOMAIN s.classes : Cardinality({i \in DOMAIN m : d \in m[i].domains})
                                      <= c.max_members_per_failure_domain

\* What a request may be answered with, best first.  CostMax itself is left out:
\* a search cannot tell a label of CostMax from no label.
RightAnswers ==
  LET s == snapshot
      c == request.constraints
      links == {e \in s.edges : UsableLink(s, request, e)}
      paths == {p \in SimplePaths(links, enum.options.source, enum.options.destination) :
                  /\ c.max_hops # Absent => Len(p) <= c.max_hops
                  /\ ExactCost(s, request, p) < CostMax
                  /\ WithinMemberLimit(s, c, p)}
      ranked == Ordered(paths, LAMBDA p, q : LexLess(ExactKey(s, request, p),
                                                     ExactKey(s, request, q)))
  IN  [i \in DOMAIN ranked |-> Links(ranked[i])]

-----------------------------------------------------------------------------
(* Properties.                                                             *)

Answered  == stage = "done"
Searched  == Answered /\ enum.phase = "done"
Returned  == [i \in DOMAIN result.candidates |->
                [j \in DOMAIN result.candidates[i].path.hops |->
                   result.candidates[i].path.hops[j].link]]
PathCost(x) == AccumulatePathCost(view, x.path.hops)

\* The variables keep the shape the code gives them.
TypeOK ==
  /\ stage \in {"build", "plan", "search", "done"}
  /\ scenario \in DOMAIN Scenarios /\ step \in 1..(Len(S.calls) + 1)
  /\ \A field \in {"nodes", "edges", "endpoints"} : builder[field] \in Seq(Range(builder[field]))
  /\ snapshot.ok \in BOOLEAN
  /\ budget.states \in 0..S.limits.max_expanded_states
  /\ budget.pushes \in 0..S.limits.max_queue_entries
  /\ budget.spurs \in 0..S.limits.max_spur_searches
  /\ call.status \in {"idle", "running", "trivial", "none", "limit"}
  /\ call.status = "running" =>
       \A k \in DOMAIN call.dist : call.dist[k][1] \in 0..CostMax /\ call.dist[k][2] \in 0..InfiniteHops

\* A snapshot that Build publishes is coherent: identifiers are unique, every
\* link and endpoint names a published node and a port that node publishes, and
\* every link of a layer has a relationship of that layer (graph.cpp, Build and
\* the Add calls together).
SnapshotCoherent ==
  snapshot.ok =>
    /\ \A field \in {"nodes", "edges", "endpoints"} :
         \A x, y \in snapshot[field] : x.id = y.id => x = y
    /\ \A e \in snapshot.edges :
         /\ e.from # e.to
         /\ RelationshipMatchesLayer(e.relationship, e.layer)
         /\ \E n \in snapshot.nodes : n.id = e.from /\ e.from_port \in n.ports
         /\ \E n \in snapshot.nodes : n.id = e.to /\ e.to_port \in n.ports
    /\ \A p \in snapshot.endpoints :
         \E n \in snapshot.nodes : n.id = p.node /\ p.port \in n.ports

\* The answer is the first max_candidates of all usable simple paths, in the
\* documented order.  Only paths that cost exactly CostMax may follow.
ExactAnswer ==
  LET n == Min({Len(RightAnswers), enum.options.k})
  IN  /\ Len(Returned) >= n
      /\ SubSeq(Returned, 1, n) = SubSeq(RightAnswers, 1, n)
      /\ \A i \in (n + 1)..Len(Returned) : PathCost(result.candidates[i]) = CostMax

\* The plain K-path question: nothing but the search decides the answer.
PlainQuestion ==
  /\ Searched
  /\ enum.options.source # enum.options.destination
  /\ enum.options.stages = << >>
  /\ ~enum.result.limit /\ ~enum.result.truncated
  /\ request.policy.authority_validation = "NONE"

ParallelLinks == \E e, f \in snapshot.edges : e # f /\ e.from = f.from /\ e.to = f.to

\* Yen over the filtered view is exact where no two links join the same nodes:
\* unless a budget ran out or the ceiling truncated the enumeration, the answer
\* is the K best usable simple paths in the documented order - and no candidate
\* means that there is no such path (search.cpp with planning_view.cpp).
KBestExact == PlainQuestion /\ ~ParallelLinks => ExactAnswer

\* README.md says that parallel links between the same nodes are enumerated as
\* distinct candidates: the answer is exact on a multigraph too.
ParallelLinksEnumerated == PlainQuestion => ExactAnswer

\* Whatever the mode, every candidate keeps what the request asked for: a simple
\* path between the two nodes over usable links only, within max_hops, visiting
\* the transit stages in order, within the member limit (which the staged branch
\* of the enumeration does not apply, so without stages), never a path the
\* authority rejected, and only validated ones when that is required.
CandidatesHonourRequest ==
  Answered => \A i \in DOMAIN result.candidates :
    LET x == result.candidates[i]
        c == request.constraints
        nodes == x.path.nodes
        edges == [j \in DOMAIN x.path.hops |->
                    CHOOSE e \in snapshot.edges : e.id = x.path.hops[j].link]
        visits == [DOMAIN c.required_transit -> DOMAIN nodes]
    IN  /\ nodes[1] = NodeOf(snapshot, request.source)
        /\ nodes[Len(nodes)] = NodeOf(snapshot, request.destination)
        /\ ~HasDuplicate(nodes)
        /\ \A j \in DOMAIN edges : /\ UsableLink(snapshot, request, edges[j])
                                   /\ edges[j].from = nodes[j] /\ edges[j].to = nodes[j + 1]
        /\ c.max_hops # Absent => Len(edges) <= c.max_hops
        /\ c.required_transit = << >> => WithinMemberLimit(snapshot, c, edges)
        /\ \E at \in visits :
             /\ \A j \in DOMAIN at : nodes[at[j]] \in Range(c.required_transit[j].alternatives)
             /\ \A j, k \in DOMAIN at : j <= k => at[j] <= at[k]
        /\ x.authority # "REJECTED"
        /\ request.policy.authority_validation = "REQUIRED" => x.authority = "VALIDATED"

\* The published states a CURRENT candidate may cross: UP, and what a flag of
\* the policy admits by name.
CurrentLinkStates(r) ==
  {"UP"} \cup (IF r.policy.allow_degraded_links THEN {"DEGRADED"} ELSE {})

CurrentPortStates(r) ==
  {"UP"} \cup (IF r.policy.allow_draining_ports THEN {"DRAINING"} ELSE {})
         \cup (IF r.policy.allow_maintenance_ports THEN {"MAINTENANCE"} ELSE {})

\* A candidate is called CURRENT only when every link and port it crosses has a
\* published state that is UP or admitted by a flag of the policy: never over
\* silence or pending revalidation, whichever way the filter let them in, and
\* never over a diagnostic plan's draining ports (planning_view.cpp, provisional,
\* against what the filter let in).  README 5.2 and request.hpp say that a
\* draining or maintenance port is never CURRENT even when its flag is set; the
\* code does call it CURRENT, and this property does not claim otherwise.
CurrentIsProven ==
  Answered => \A i \in DOMAIN result.candidates :
    LET x == result.candidates[i] IN
    x.currentness = "CURRENT" =>
      \A e \in snapshot.edges : (\E j \in DOMAIN x.path.hops : x.path.hops[j].link = e.id) =>
        /\ LinkStateOf(snapshot, e.id) \in CurrentLinkStates(request)
        /\ \A p \in {e.from_port, e.to_port} :
             PortStateOf(snapshot, p) \in CurrentPortStates(request)

\* NO_STRUCTURAL_PATH is only said when the published links do not join the two
\* nodes at all: whatever else stood in the way was logged and is named instead.
\* The log must have kept its entries, and the cases in which the cause is not
\* in the log are set apart: the member limit, the authority, a cost of CostMax.
CauseNamed ==
  LET c == request.constraints
      anything == [c EXCEPT !.forbidden_links = << >>, !.forbidden_nodes = << >>]
      links == {e \in snapshot.edges : UsableLink(snapshot, request, e)}
  IN  (/\ Searched
       /\ result.primary = "NO_STRUCTURAL_PATH"
       /\ Len(view.log.explicit) < view.log.max
       /\ c.max_members_per_failure_domain = Absent
       /\ request.policy.authority_validation = "NONE"
       /\ \A p \in SimplePaths(links, enum.options.source, enum.options.destination) :
            ExactCost(snapshot, request, p) # CostMax)
      => StructuralHopDistance(snapshot, anything,
                               enum.options.source, enum.options.destination) = Absent

\* A search that ran out of work is never passed off as an answer: the status is
\* RESOURCE_LIMIT with the budget as its cause and nothing of the paths found so
\* far, and the budget is the cause only when it really ran out.
NoPartialAnswer ==
  Searched =>
    LET spent == budget.exhausted
                   \/ (enum.result.limit /\ enum.result.failure = "WORK_BUDGET_EXHAUSTED")
    IN  /\ spent => /\ result.status = "RESOURCE_LIMIT"
                    /\ result.primary = "WORK_BUDGET_EXHAUSTED"
                    /\ result.candidates = << >>
        /\ result.primary = "WORK_BUDGET_EXHAUSTED" =>
             spent /\ (0 \in {budget.states, budget.pushes, budget.spurs}
                        \/ request.constraints.max_hops # Absent)

\* During one search the label of a settled node is final: the queue order and
\* the lexicographic labels never let a later relaxation improve it, zero-cost
\* links included (search.cpp, the two search loops).
SettledIsFinal ==
  [][(call.status = "running" /\ call'.status = "running" /\ enum' = enum) =>
       /\ call.settled \subseteq call'.settled
       /\ \A k \in call.settled : call'.dist[k] = call.dist[k]]_vars

\* The outer loops of an enumeration: the paths or combinations to go, and the
\* spur nodes or legs to go.
LoopsLeft(e) ==
  LET o    == e.options
      last == e.accepted[Len(e.accepted)]
  IN  CASE e.phase = "done" -> <<0, 0>>
        [] e.phase # "done" /\ o.stages # << >> ->
             <<Product([i \in DOMAIN o.stages |-> Len(o.stages[i].alternatives)])
                 - e.combination + 1,
               IF e.phase \in {"start", "combination"} THEN Len(o.stages) + 2
               ELSE Len(o.stages) + 1 - e.stage>>
        [] OTHER ->
             <<o.wanted - Len(e.accepted) + 1,
               IF e.accepted = << >> THEN 0 ELSE Len(last.hops) - e.spur>>

PhaseLeft(e) == CASE e.phase = "start" -> 2
                  [] e.phase \in {"spur", "combination", "leg"} -> 1
                  [] OTHER -> 0

\* The labels and queue entries of the running search.
SearchLeft(c) ==
  IF c.status = "running"
  THEN <<Cardinality(DOMAIN c.dist) - Cardinality(c.settled), Cardinality(c.queue)>>
  ELSE <<0, 0>>

\* What is left of an enumeration, most significant first.
WorkLeft(e, c) == LoopsLeft(e) \o <<PhaseLeft(e)>> \o SearchLeft(c)

\* Every plan returns: each step of an enumeration leaves strictly less to do,
\* so no request makes the searches, the spur loop or the combinations of the
\* transit stages run for ever.
WorkShrinks ==
  [][stage = "search" /\ stage' = "search" =>
       LexLess(WorkLeft(enum', call'), WorkLeft(enum, call))]_vars
=============================================================================
