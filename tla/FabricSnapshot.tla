--------------------------- MODULE FabricSnapshot ---------------------------
(***************************************************************************)
(* FabricSnapshotBuilder and the FabricSnapshot it publishes (graph.cpp).  *)
(*                                                                         *)
(* Identifiers are naturals ordered as the code orders the identifier      *)
(* bytes; 0 is the nil identifier.  The builder keeps the vectors in the   *)
(* order of the calls, because duplicates are only found by Build; the     *)
(* snapshot keeps sets, because Build sorts every vector by identifier and *)
(* refuses duplicates.  The state, port and capability views are functions *)
(* from the subjects that have a record.                                   *)
(***************************************************************************)
EXTENDS Integers, Sequences, FiniteSets, SequencesExt

CONSTANTS MaxCandidateRank,     \* kMaxCandidateRank
          MaxHopCount           \* kMaxHopCount

VARIABLES builder,              \* the FabricSnapshotBuilder
          snapshot              \* the last Build: its snapshot or its error

NilId == 0
OK    == "OK"

\* The types of the records: unsigned integers, and the two state enumerations.
NodeArgs        == [id : Nat, ports : Seq(Nat), structural_generation : Nat]
NodeRecords     == [id : Nat, ports : SUBSET Nat, structural_generation : Nat]
EdgeRecords     == [id : Nat, from : Nat, to : Nat, from_port : Nat, to_port : Nat,
                    layer : STRING, relationship : STRING, static_cost : Nat,
                    structural_generation : Nat]
EndpointRecords == [id : Nat, endpoint_class : STRING, node : Nat, port : Nat,
                    entity_generation : Nat]
LinkStateNames  == {"UP", "DEGRADED", "DOWN", "FAULTED", "RETIRED",
                    "REVALIDATION_REQUIRED", "UNKNOWN"}
PortStateNames  == {"UP", "ADMIN_DISABLED", "RETIRED", "SUPERSEDED", "DRAINING",
                    "MAINTENANCE", "REVALIDATION_REQUIRED", "UNKNOWN"}

ForNode(id) == <<1, id>>
ForLink(id) == <<2, id>>
ForPort(id) == <<3, id>>

\* The code of the first check that fails, in the order the code makes them.
FirstFailure(checks) ==
  LET i == SelectInSeq(checks, LAMBDA c : c[1])
  IN  IF i = 0 THEN OK ELSE checks[i][2]

HasDuplicate(s) == \E i, j \in DOMAIN s : i # j /\ s[i] = s[j]

\* A finite set as a sequence, in the strict total order Less.
Ordered(set, Less(_, _)) ==
  [i \in 1..Cardinality(set) |->
     CHOOSE x \in set : Cardinality({y \in set : Less(y, x)}) = i - 1]

\* SelectSeq as a fold.
Kept(s, Test(_)) == FoldLeft(LAMBDA kept, x : IF Test(x) THEN Append(kept, x) ELSE kept, << >>, s)

IdsOf(s) == [i \in DOMAIN s |-> s[i].id]

RelationshipMatchesLayer(relationship, layer) ==
  layer \in CASE relationship = "DIRECT_LINK"          -> {"PHYSICAL"}
              [] relationship = "PORT_PAIRING"         -> {"PHYSICAL"}
              [] relationship = "LOGICAL_ADJACENCY"    -> {"LOGICAL"}
              [] relationship = "TUNNEL_ENCAPSULATION" -> {"TUNNEL", "OVERLAY"}
              [] OTHER                                 -> {}

ValidateLimits(l) == FirstFailure(<<
  <<0 \in {l.max_nodes, l.max_edges, l.max_endpoints, l.max_ports_per_node},
    "GRAPH_TOO_LARGE">>,
  <<l.max_candidates_per_request \notin 1..MaxCandidateRank, "CANDIDATE_LIMIT_EXCEEDED">>,
  <<l.max_hops \notin 1..MaxHopCount, "MAX_HOPS_EXCEEDED">>,
  <<l.max_frame_bytes \notin 64..(256 * 2^20), "PROTOCOL_MALFORMED_FRAME">>,
  <<0 \in {l.max_sessions, l.max_workers, l.max_concurrent_requests},
    "PROTOCOL_SESSION_LIMIT">>,
  <<0 \in {l.receive_bound_ms, l.connect_bound_ms, l.send_bound_ms},
    "PROTOCOL_RECEIVE_BOUND_EXCEEDED">>,
  <<0 \in {l.max_expanded_states, l.max_spur_searches, l.max_queue_entries},
    "WORK_BUDGET_EXHAUSTED">>,
  <<0 \in {l.max_retained_plans, l.max_history_entries, l.max_explanation_entries},
    "PERSISTENCE_LIMIT_EXCEEDED">>,
  <<0 \in {l.max_constraints_total, l.max_forbidden_ids, l.max_required_ids},
    "CONSTRAINT_COUNT_EXCEEDED">>,
  <<0 \in {l.max_required_any_sets, l.max_members_in_any_set},
    "CONSTRAINT_COUNT_EXCEEDED">> >>)

NewBuilder(limits) ==
  [limits |-> limits, generations |-> [topology |-> 0, epoch |-> 0],
   nodes |-> <<>>, edges |-> <<>>, endpoints |-> <<>>,
   link_states |-> <<>>, port_states |-> <<>>, capabilities |-> <<>>,
   failure_domains |-> <<>>, membership_complete |-> FALSE, diagnostics |-> <<>>]

NoSnapshot == [ok |-> FALSE, error |-> OK]

-----------------------------------------------------------------------------
(* The calls on the builder.                                               *)

\* Append an accepted record to its vector; Reject keeps the reason.
Accept(field, record, code) ==
  /\ builder' = IF code = OK
                THEN [builder EXCEPT ![field] = Append(@, record)]
                ELSE [builder EXCEPT !.diagnostics = Append(@, code)]
  /\ UNCHANGED snapshot

SetGenerations(g) ==
  /\ builder' = [builder EXCEPT !.generations = g]
  /\ UNCHANGED snapshot

NodeRejection(n) == FirstFailure(<<
  <<Len(builder.nodes) + 1 > builder.limits.max_nodes, "GRAPH_TOO_LARGE">>,
  <<n.id = NilId, "MALFORMED_IDENTIFIER">>,
  <<NilId \in Range(n.ports), "MALFORMED_IDENTIFIER">>,
  <<Len(n.ports) > builder.limits.max_ports_per_node, "GRAPH_TOO_LARGE">>,
  <<HasDuplicate(n.ports), "DUPLICATE_IDENTIFIER">>,
  <<n.structural_generation > builder.generations.topology,
    "TOPOLOGY_GENERATION_MISMATCH">> >>)

AddNode(n) == Accept("nodes", [n EXCEPT !.ports = Range(@)], NodeRejection(n))

EdgeRejection(e) == FirstFailure(<<
  <<Len(builder.edges) + 1 > builder.limits.max_edges, "TOO_MANY_EDGES">>,
  <<NilId \in {e.id, e.from, e.to, e.from_port, e.to_port}, "MALFORMED_IDENTIFIER">>,
  <<e.from = e.to, "SELF_LOOP_REJECTED">>,
  <<~RelationshipMatchesLayer(e.relationship, e.layer), "LAYER_MISMATCH">>,
  <<e.structural_generation > builder.generations.topology,
    "TOPOLOGY_GENERATION_MISMATCH">> >>)

AddEdge(e) == Accept("edges", e, EdgeRejection(e))

EndpointRejection(p) == FirstFailure(<<
  <<Len(builder.endpoints) + 1 > builder.limits.max_endpoints, "GRAPH_TOO_LARGE">>,
  <<NilId \in {p.id, p.node, p.port}, "MALFORMED_IDENTIFIER">> >>)

AddEndpoint(p) == Accept("endpoints", p, EndpointRejection(p))

\* SetLinkStates, SetPortStates, SetCapabilities: replace a whole view.
SetView(field, records) ==
  /\ builder' = [builder EXCEPT ![field] = records]
  /\ UNCHANGED snapshot

SetFailureDomains(domains, complete) ==
  /\ builder' = [builder EXCEPT !.failure_domains = domains,
                                !.membership_complete = complete]
  /\ UNCHANGED snapshot

-----------------------------------------------------------------------------
(* Build.                                                                  *)

\* Mutant: the node alone is looked up.
PublishesPort_NodeOnly(nodes, id, port) == \E n \in nodes : n.id = id
PublishesPort(nodes, id, port) == \E n \in nodes : n.id = id /\ port \in n.ports

\* Duplicates of a view are looked for between neighbours, in call order.
NeighboursAgree(keys) == \E i \in 2..Len(keys) : keys[i - 1] = keys[i]

DomainFailure(b) ==
  LET Bad(d) == d.domain = NilId
                  \/ Len(d.members) > b.limits.max_members_per_failure_domain
      i == SelectInSeq(b.failure_domains, Bad)
  IN  IF i = 0 THEN OK
      ELSE IF b.failure_domains[i].domain = NilId THEN "MALFORMED_IDENTIFIER"
      ELSE "GRAPH_TOO_LARGE"

ViewFailure(b) == FirstFailure(<<
  <<Len(b.link_states) > b.limits.max_link_state_records, "GRAPH_TOO_LARGE">>,
  <<Len(b.port_states) > b.limits.max_port_state_records, "GRAPH_TOO_LARGE">>,
  <<Len(b.capabilities) > b.limits.max_capability_bindings, "GRAPH_TOO_LARGE">>,
  <<Len(b.failure_domains) > b.limits.max_failure_domains, "GRAPH_TOO_LARGE">>,
  <<NeighboursAgree([i \in DOMAIN b.link_states |-> b.link_states[i].link]),
    "DUPLICATE_IDENTIFIER">>,
  <<NeighboursAgree([i \in DOMAIN b.port_states |-> b.port_states[i].port]),
    "DUPLICATE_IDENTIFIER">>,
  <<NeighboursAgree([i \in DOMAIN b.capabilities |->
                       <<b.capabilities[i].subject, b.capabilities[i].capability>>]),
    "DUPLICATE_IDENTIFIER">>,
  <<NeighboursAgree([i \in DOMAIN b.failure_domains |-> b.failure_domains[i].domain]),
    "DUPLICATE_IDENTIFIER">>,
  <<DomainFailure(b) # OK, DomainFailure(b)>> >>)

BuildFailure(b) ==
  LET nodes == Range(b.nodes) IN FirstFailure(<<
  <<ValidateLimits(b.limits) # OK, ValidateLimits(b.limits)>>,
  <<HasDuplicate(IdsOf(b.nodes)), "DUPLICATE_IDENTIFIER">>,
  <<HasDuplicate(IdsOf(b.edges)), "DUPLICATE_IDENTIFIER">>,
  <<\E e \in Range(b.edges) : \/ ~PublishesPort(nodes, e.from, e.from_port)
                              \/ ~PublishesPort(nodes, e.to, e.to_port),
    "NO_STRUCTURAL_PATH">>,
  <<HasDuplicate(IdsOf(b.endpoints)), "AMBIGUOUS_ENDPOINT">>,
  <<\E p \in Range(b.endpoints) : ~PublishesPort(nodes, p.node, p.port),
    "UNKNOWN_ENDPOINT">>,
  <<ViewFailure(b) # OK, ViewFailure(b)>> >>)

\* A view answers a lookup with the first record of the sorted vector.  Two
\* records of one subject may survive (see NeighboursAgree); which of them the
\* sort puts first is not specified, so each is possible.  A record is a pair of
\* its subject and its value.
Views(records) ==
  {f \in [{r[1] : r \in records} -> {r[2] : r \in records}] :
     \A k \in DOMAIN f : <<k, f[k]>> \in records}

\* The snapshot: membership pairs every member of a domain with the domain.
Published(b, links, ports, caps, classes) ==
  [ok |-> TRUE, error |-> OK, generations |-> b.generations,
   nodes |-> Range(b.nodes), edges |-> Range(b.edges), endpoints |-> Range(b.endpoints),
   link_states |-> links, port_states |-> ports, capabilities |-> caps,
   classes |-> classes,
   membership |-> UNION {{<<m, d.domain>> : m \in Range(d.members)} :
                           d \in Range(b.failure_domains)},
   membership_complete |-> b.membership_complete]

\* How many bytes the variable-length encoding of a count takes.
VarBytes(n) == CHOOSE k \in 1..10 : n < 128^k /\ \A i \in 1..(k - 1) : n >= 128^i

\* How many records each vector of the builder holds.
RecordCounts(b) ==
  <<Len(b.nodes), Len(b.edges), Len(b.endpoints), Len(b.link_states), Len(b.port_states),
    Len(b.capabilities), Len(b.failure_domains)>>

\* The length of FabricSnapshot::Encode: 73 bytes of version, generations, source
\* and flag, the seven counts, and the records with their 16-byte identifiers.
EncodedBytes(b) ==
  LET Total(s, Bytes(_)) == FoldLeft(LAMBDA n, x : n + Bytes(x), 0, s)
      NodeBytes(n) == LET p == Cardinality(n.ports) IN 48 + VarBytes(p) + 16 * p
      DomainBytes(d) == LET m == Cardinality(Range(d.members)) IN 32 + VarBytes(m) + 20 * m
  IN  73 + Total(RecordCounts(b), VarBytes)
         + Total(b.nodes, NodeBytes) + 108 * Len(b.edges) + 60 * Len(b.endpoints)
         + 20 * (Len(b.link_states) + Len(b.port_states)) + 44 * Len(b.capabilities)
         + Total(b.failure_domains, DomainBytes)

\* The writer's ceiling grows with the records, not with a node's ports or a
\* domain's members.
EncodingOverflows(b) ==
  EncodedBytes(b) > 1024 + 128 * FoldLeft(LAMBDA n, x : n + x, 0, RecordCounts(b))

\* The builder after its vectors were moved into a snapshot.
Emptied(b) ==
  [NewBuilder(b.limits) EXCEPT !.generations = b.generations,
                               !.membership_complete = b.membership_complete,
                               !.diagnostics = b.diagnostics]

\* Build moves the vectors out of the builder once its checks pass, before it
\* encodes the snapshot.
Build ==
  IF BuildFailure(builder) # OK
  THEN /\ snapshot' = [ok |-> FALSE, error |-> BuildFailure(builder)]
       /\ UNCHANGED builder
  ELSE /\ builder' = Emptied(builder)
       /\ IF EncodingOverflows(builder)
          THEN snapshot' = [ok |-> FALSE, error |-> "GRAPH_TOO_LARGE"]
          ELSE \E links   \in Views({<<r.link, r.state>> : r \in Range(builder.link_states)}),
                  ports   \in Views({<<r.port, r.state>> : r \in Range(builder.port_states)}),
                  caps    \in Views({<<<<r.subject, r.capability>>, r.value>> :
                                       r \in Range(builder.capabilities)}),
                  classes \in Views({<<r.domain, r.risk_class>> :
                                       r \in Range(builder.failure_domains)}) :
                 snapshot' = Published(builder, links, ports, caps, classes)

-----------------------------------------------------------------------------
(* Lookups on a published snapshot s.                                      *)

FindNode(s, id)     == {n \in s.nodes : n.id = id}
FindEndpoint(s, id) == {p \in s.endpoints : p.id = id}

\* No record means no proof: UNKNOWN, never UP.
LinkStateOf(s, link) == IF link \in DOMAIN s.link_states THEN s.link_states[link] ELSE "UNKNOWN"
PortStateOf(s, port) == IF port \in DOMAIN s.port_states THEN s.port_states[port] ELSE "UNKNOWN"

MembershipOf(s, subject) ==
  LET domains == {m[2] : m \in {m \in s.membership : m[1] = subject}}
  IN  [known |-> domains # {} \/ s.membership_complete, domains |-> domains]
=============================================================================
