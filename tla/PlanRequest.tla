----------------------------- MODULE PlanRequest -----------------------------
(***************************************************************************)
(* The planning request and its validation (request.cpp).  Vectors stay    *)
(* sequences here: their length and their duplicates are what is checked.  *)
(* An absent optional is Absent.                                           *)
(***************************************************************************)
EXTENDS FabricSnapshot

Absent == -1

PathLayers               == {"PHYSICAL", "LOGICAL", "OVERLAY", "TUNNEL"}
PlanningModes            == {"STANDARD", "DIAGNOSTIC_NON_CURRENT"}
AuthorityValidationModes == {"NONE", "BEST_EFFORT", "REQUIRED"}
CapabilityScopes         == {"EVERY_NODE", "EVERY_LINK", "EVERY_PORT",
                             "SOURCE_NODE", "DESTINATION_NODE"}
CapabilityComparators    == {"AT_LEAST", "AT_MOST", "EQUAL"}

SatisfiedBy(requirement, observed) ==
  CASE requirement.comparator = "AT_LEAST" -> observed >= requirement.value
    [] requirement.comparator = "AT_MOST"  -> observed <= requirement.value
    [] requirement.comparator = "EQUAL"    -> observed = requirement.value

\* The five forbidden vectors, in the order in which they are validated.
Forbidden(c) == <<c.forbidden_nodes, c.forbidden_links, c.forbidden_ports,
                  c.forbidden_failure_domains, c.forbidden_failure_domain_classes>>

EntryCount(c) == Len(FlattenSeq(Forbidden(c)))
                   + Len(c.required_transit) + Len(c.required_capabilities)

StageFailure(stage, l) == FirstFailure(<<
  <<stage.alternatives = <<>>, "MALFORMED_IDENTIFIER">>,
  <<stage.kind = "EXACT" /\ Len(stage.alternatives) # 1, "CONSTRAINT_COUNT_EXCEEDED">>,
  <<Len(stage.alternatives) > l.max_members_in_any_set, "CONSTRAINT_COUNT_EXCEEDED">>,
  <<NilId \in Range(stage.alternatives), "MALFORMED_IDENTIFIER">>,
  <<HasDuplicate(stage.alternatives), "DUPLICATE_CONSTRAINT_ENTRY">> >>)

TransitFailure(c, l) ==
  LET i == SelectInSeq(c.required_transit, LAMBDA s : StageFailure(s, l) # OK)
  IN  IF i = 0 THEN OK ELSE StageFailure(c.required_transit[i], l)

ValidateConstraintSet(c, l) == FirstFailure(<<
  <<c.id = NilId, "MALFORMED_IDENTIFIER">>,
  <<EntryCount(c) > l.max_constraints_total, "CONSTRAINT_COUNT_EXCEEDED">>,
  <<\/ \E i \in 1..4 : Len(Forbidden(c)[i]) > l.max_forbidden_ids
    \/ Len(c.forbidden_failure_domain_classes) > l.max_forbidden_domain_classes,
    "CONSTRAINT_COUNT_EXCEEDED">>,
  <<Len(c.required_transit) > l.max_required_ids, "CONSTRAINT_COUNT_EXCEEDED">>,
  <<Len(c.required_capabilities) > l.max_capability_requirements,
    "CONSTRAINT_COUNT_EXCEEDED">>,
  <<\E i \in 1..5 : NilId \in Range(Forbidden(c)[i]), "MALFORMED_IDENTIFIER">>,
  <<\E i \in 1..5 : HasDuplicate(Forbidden(c)[i]), "DUPLICATE_CONSTRAINT_ENTRY">>,
  <<TransitFailure(c, l) # OK, TransitFailure(c, l)>>,
  <<\E r \in Range(c.required_capabilities) : r.capability = NilId,
    "MALFORMED_IDENTIFIER">>,
  <<c.max_hops # Absent /\ c.max_hops > l.max_hops, "MAX_HOPS_EXCEEDED">>,
  <<c.max_members_per_failure_domain = 0, "CONSTRAINT_COUNT_EXCEEDED">> >>)

ValidatePolicy(p, l) == FirstFailure(<<
  <<Len(p.locality_scope) > l.max_forbidden_ids, "CONSTRAINT_COUNT_EXCEEDED">>,
  <<NilId \in Range(p.locality_scope), "MALFORMED_IDENTIFIER">>,
  <<HasDuplicate(p.locality_scope), "DUPLICATE_CONSTRAINT_ENTRY">>,
  <<p.locality_penalty # 0 /\ p.locality_scope = <<>>, "UNSUPPORTED_REQUEST">> >>)

ValidateRequest(r, l) == FirstFailure(<<
  <<NilId \in {r.id, r.source.id, r.destination.id}, "MALFORMED_IDENTIFIER">>,
  <<r.max_candidates = 0, "CANDIDATE_LIMIT_EXCEEDED">>,
  <<r.max_candidates > l.max_candidates_per_request,
    "REQUESTED_CANDIDATES_ABOVE_CEILING">>,
  <<r.constraints.layer \notin PathLayers, "UNSUPPORTED_LAYER">>,
  <<r.mode \notin PlanningModes, "UNSUPPORTED_REQUEST">>,
  <<r.policy.authority_validation \notin AuthorityValidationModes, "UNSUPPORTED_REQUEST">>,
  <<\E q \in Range(r.constraints.required_capabilities) :
       q.scope \notin CapabilityScopes \/ q.comparator \notin CapabilityComparators,
    "UNSUPPORTED_REQUEST">>,
  <<ValidateConstraintSet(r.constraints, l) # OK, ValidateConstraintSet(r.constraints, l)>>,
  <<ValidatePolicy(r.policy, l) # OK, ValidatePolicy(r.policy, l)>>,
  <<r.expected_topology = 0, "MALFORMED_IDENTIFIER">>,
  <<r.expected_snapshot = NilId, "MALFORMED_IDENTIFIER">> >>)

StatusForValidationCode(code) ==
  CASE code \in {"REQUESTED_CANDIDATES_ABOVE_CEILING", "CONSTRAINT_COUNT_EXCEEDED",
                 "GRAPH_TOO_LARGE", "TOO_MANY_EDGES", "WORK_BUDGET_EXHAUSTED"}
         -> "RESOURCE_LIMIT"
    [] code = "MAX_HOPS_EXCEEDED" -> "CONSTRAINT_UNSATISFIED"
    [] code \in {"UNSUPPORTED_LAYER", "UNSUPPORTED_REQUEST", "UNSUPPORTED_ENDPOINT_CLASS"}
         -> "UNSUPPORTED"
    [] OTHER -> "MALFORMED_REQUEST"
=============================================================================
