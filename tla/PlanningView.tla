---------------------------- MODULE PlanningView ----------------------------
(***************************************************************************)
(* BuildPlanningView (planning_view.cpp): the part of a snapshot one       *)
(* request may use, the cost of every eligible link, and the log of what   *)
(* was excluded and why.                                                   *)
(*                                                                         *)
(* A CostValue is a natural up to CostMax, the model's 2^64 - 1; a sum     *)
(* that does not fit is Overflow, the model's nullopt, and stays so.       *)
(***************************************************************************)
EXTENDS PlanRequest

CONSTANT CostMax
ASSUME CostMaxAssumption == CostMax \in Nat

Overflow == CostMax + 1
CheckedAdd(a, b) == IF a + b > CostMax THEN Overflow ELSE a + b
CheckedMul(a, n) == IF a * n > CostMax THEN Overflow ELSE a * n

-----------------------------------------------------------------------------
(* RejectionLog.  Aggregates count every occurrence of a code; explicit    *)
(* entries are kept one by one, up to max_explanation_entries.             *)

NewLog(limits) == [max      |-> IF limits.max_explanation_entries = 0 THEN 1
                                ELSE limits.max_explanation_entries,
                   explicit |-> <<>>,
                   counts   |-> << >>]

Aggregate(log, code) ==
  [log EXCEPT !.counts = [c \in DOMAIN @ \cup {code} |->
                            (IF c \in DOMAIN @ THEN @[c] ELSE 0)
                              + (IF c = code THEN 1 ELSE 0)]]

Explicit(log, code) ==
  IF Len(log.explicit) >= log.max THEN log
  ELSE [log EXCEPT !.explicit = Append(@, code)]

\* Mutant: only the counted codes are looked at.
LogContains_CountsOnly(log, code) == code \in DOMAIN log.counts
LogContains(log, code) == code \in DOMAIN log.counts \/ code \in Range(log.explicit)

-----------------------------------------------------------------------------
(* Eligibility of one subject: OK, or the diagnostic that excludes it.     *)

CapabilitySatisfied(s, subject, requirement) ==
  LET key == <<subject, requirement.capability>> IN
  IF key \notin DOMAIN s.capabilities THEN "CAPABILITY_UNKNOWN"
  ELSE IF SatisfiedBy(requirement, s.capabilities[key]) THEN OK
  ELSE "CAPABILITY_INSUFFICIENT"

\* The domains of a subject are visited in identifier order; the first one that
\* is forbidden, by identity before class, names the failure.
FailureDomainCompliant(s, c, subject) ==
  LET ids     == Range(c.forbidden_failure_domains)
      classes == Range(c.forbidden_failure_domain_classes)
      member  == MembershipOf(s, subject)
      bad     == {d \in member.domains : d \in ids \/ s.classes[d] \in classes}
  IN  IF ~member.known
      THEN IF c.fail_closed_on_unknown_domains /\ ids \cup classes # {}
           THEN "FAILURE_DOMAIN_UNKNOWN" ELSE OK
      ELSE IF bad = {} THEN OK
      ELSE IF Min(bad) \in ids THEN "FAILURE_DOMAIN_FORBIDDEN"
      ELSE "FAILURE_DOMAIN_CLASS_FORBIDDEN"

\* The first capability requirement of the given scope that a subject fails.
CapabilityFailure(s, c, scope, subject) ==
  LET Fails(q) == q.scope = scope /\ CapabilitySatisfied(s, subject, q) # OK
      i == SelectInSeq(c.required_capabilities, Fails)
  IN  IF i = 0 THEN OK
      ELSE CapabilitySatisfied(s, subject, c.required_capabilities[i])

EvaluateNode(s, c, id) ==
  LET capability == CapabilityFailure(s, c, "EVERY_NODE", ForNode(id))
      domain     == FailureDomainCompliant(s, c, ForNode(id))
  IN  FirstFailure(<<
        <<id \in Range(c.forbidden_nodes), "FORBIDDEN_NODE">>,
        <<capability # OK, capability>>,
        <<domain # OK, domain>> >>)

Diagnostic(r)      == r.mode = "DIAGNOSTIC_NON_CURRENT"
ProofRequired(r)   == r.policy.require_operational_proof /\ ~Diagnostic(r)
\* Mutant: a request that waives the proof is forgotten.
Provisional_ModeOnly(r) == Diagnostic(r)
Provisional(r)     == Diagnostic(r) \/ ~r.policy.require_operational_proof

LinkStateFailure(r, state) ==
  CASE state = "UP"        -> OK
    [] state = "DEGRADED"  -> IF r.policy.allow_degraded_links THEN OK
                              ELSE "LINK_STATE_DEGRADED_DISALLOWED"
    [] state = "DOWN"      -> "LINK_STATE_DOWN"
    [] state = "FAULTED"   -> "LINK_STATE_FAULTED"
    [] state = "RETIRED"   -> "LINK_STATE_RETIRED"
    [] state = "REVALIDATION_REQUIRED" ->
         IF Diagnostic(r) THEN OK ELSE "LINK_STATE_REVALIDATION_REQUIRED"
    [] state = "UNKNOWN"   -> IF ProofRequired(r) THEN "LINK_STATE_UNKNOWN" ELSE OK

PortStateFailure(r, state) ==
  CASE state = "UP"             -> OK
    [] state = "ADMIN_DISABLED" -> "PORT_ADMIN_DISABLED"
    [] state = "RETIRED"        -> "PORT_RETIRED"
    [] state = "SUPERSEDED"     -> "PORT_SUPERSEDED"
    [] state = "DRAINING"       ->
         IF r.policy.allow_draining_ports \/ Diagnostic(r) THEN OK ELSE "PORT_DRAINING"
    [] state = "MAINTENANCE"    ->
         IF r.policy.allow_maintenance_ports \/ Diagnostic(r) THEN OK ELSE "PORT_MAINTENANCE"
    [] state = "REVALIDATION_REQUIRED" ->
         IF Diagnostic(r) THEN OK ELSE "PORT_REVALIDATION_REQUIRED"
    [] state = "UNKNOWN"        -> IF ProofRequired(r) THEN "PORT_UNKNOWN" ELSE OK

\* Requirements on links and on ports are checked in the order of the request.
EdgeCapabilityFailure(s, c, e) ==
  LET Subjects(q) == CASE q.scope = "EVERY_LINK" -> <<ForLink(e.id)>>
                       [] q.scope = "EVERY_PORT" -> <<ForPort(e.from_port), ForPort(e.to_port)>>
                       [] OTHER -> << >>
      Fails(q) == \E x \in Range(Subjects(q)) : CapabilitySatisfied(s, x, q) # OK
      i == SelectInSeq(c.required_capabilities, Fails)
      q == c.required_capabilities[i]
  IN  IF i = 0 THEN OK
      ELSE CapabilitySatisfied(s,
             Subjects(q)[SelectInSeq(Subjects(q), LAMBDA x : CapabilitySatisfied(s, x, q) # OK)], q)

EdgeDomainFailure(s, c, e) ==
  LET subjects == <<ForLink(e.id), ForPort(e.from_port), ForPort(e.to_port)>>
      i == SelectInSeq(subjects, LAMBDA x : FailureDomainCompliant(s, c, x) # OK)
  IN  IF i = 0 THEN OK ELSE FailureDomainCompliant(s, c, subjects[i])

-----------------------------------------------------------------------------
(* The eligible graph.                                                     *)

\* The adjacency entry of an edge: what one traversal costs, hop_cost apart.
Entry(s, r, e) ==
  LET degraded == LinkStateOf(s, e.id) = "DEGRADED"
      outside  == /\ r.policy.locality_scope # << >>
                  /\ e.to \notin Range(r.policy.locality_scope)
      penalised == IF degraded THEN CheckedAdd(e.static_cost, r.policy.degraded_penalty)
                   ELSE e.static_cost
  IN  [from |-> e.from, to |-> e.to, link |-> e.id, static |-> e.static_cost,
       degraded |-> degraded, outside |-> outside,
       traversal |-> IF outside THEN CheckedAdd(penalised, r.policy.locality_penalty)
                     ELSE penalised]

Eligible == <<"eligible", OK>>

\* Why an edge is not eligible, and whether the reason is logged as an explicit
\* entry, as an aggregate, or (an end that is not in the view) not at all.
EdgeVerdict(s, r, eligible, e) ==
  LET c == r.constraints
      from_port == PortStateFailure(r, PortStateOf(s, e.from_port))
      to_port   == PortStateFailure(r, PortStateOf(s, e.to_port))
  IN  FirstFailure(<<
        <<e.layer # c.layer, <<"aggregate", "LAYER_MISMATCH">> >>,
        <<e.id \in Range(c.forbidden_links), <<"explicit", "FORBIDDEN_LINK">> >>,
        <<{e.from_port, e.to_port} \cap Range(c.forbidden_ports) # {},
          <<"explicit", "FORBIDDEN_PORT">> >>,
        <<~({e.from, e.to} \subseteq eligible), <<"silent", OK>> >>,
        <<LinkStateFailure(r, LinkStateOf(s, e.id)) # OK,
          <<"aggregate", LinkStateFailure(r, LinkStateOf(s, e.id))>> >>,
        <<from_port # OK, <<"aggregate", from_port>> >>,
        <<to_port # OK, <<"aggregate", to_port>> >>,
        <<EdgeCapabilityFailure(s, c, e) # OK,
          <<"aggregate", EdgeCapabilityFailure(s, c, e)>> >>,
        <<EdgeDomainFailure(s, c, e) # OK, <<"aggregate", EdgeDomainFailure(s, c, e)>> >>,
        <<Entry(s, r, e).traversal = Overflow, <<"aggregate", "COST_OVERFLOW">> >>,
        <<TRUE, Eligible>> >>)

Log(log, verdict) ==
  CASE verdict[1] = "aggregate" -> Aggregate(log, verdict[2])
    [] verdict[1] = "explicit"  -> Explicit(log, verdict[2])
    [] OTHER                    -> log

ById(S) == Ordered(S, LAMBDA a, b : a.id < b.id)

\* The adjacency of a node, sorted by neighbour and then by link.
SortedAdjacency(entries, node) ==
  Ordered({a \in entries : a.from = node},
          LAMBDA a, b : a.to < b.to \/ (a.to = b.to /\ a.link < b.link))

\* Requirements on the two end nodes, checked once the view has both of them.
EndCapabilityFailure(s, c, src, dst) ==
  LET End(q) == IF q.scope = "SOURCE_NODE" THEN src ELSE dst
      Fails(q) == /\ q.scope \in {"SOURCE_NODE", "DESTINATION_NODE"}
                  /\ CapabilitySatisfied(s, ForNode(End(q)), q) # OK
      i == SelectInSeq(c.required_capabilities, Fails)
      q == c.required_capabilities[i]
  IN  IF i = 0 THEN OK ELSE CapabilitySatisfied(s, ForNode(End(q)), q)

BuildPlanningView(s, r, limits, src, dst) ==
  LET c == r.constraints
      verdict  == [id \in {n.id : n \in s.nodes} |-> EvaluateNode(s, c, id)]
      eligible == {id \in DOMAIN verdict : verdict[id] = OK}
      nodeLog  == FoldLeft(LAMBDA log, n : IF verdict[n.id] = OK THEN log
                                           ELSE Explicit(log, verdict[n.id]),
                           NewLog(limits), ById(s.nodes))
      edges    == [e \in s.edges |-> EdgeVerdict(s, r, eligible, e)]
      entries  == {Entry(s, r, e) : e \in {e \in s.edges : edges[e] = Eligible}}
      fatal    == FirstFailure(<<
                    <<Cardinality(eligible) > limits.max_nodes, "GRAPH_TOO_LARGE">>,
                    <<src \notin eligible, verdict[src]>>,
                    <<dst \notin eligible, verdict[dst]>>,
                    <<EndCapabilityFailure(s, c, src, dst) # OK,
                      EndCapabilityFailure(s, c, src, dst)>> >>)
  IN  IF fatal # OK THEN [fatal |-> fatal]
      ELSE [fatal |-> OK, nodes |-> eligible, hop_cost |-> r.policy.hop_cost,
            degraded_penalty |-> r.policy.degraded_penalty,
            locality_penalty |-> r.policy.locality_penalty,
            limits |-> limits, provisional |-> Provisional(r),
            adjacency |-> [n \in eligible |-> SortedAdjacency(entries, n)],
            log |-> FoldLeft(LAMBDA log, e : Log(log, edges[e]), nodeLog, ById(s.edges))]
=============================================================================
