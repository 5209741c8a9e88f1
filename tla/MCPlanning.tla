----------------------------- MODULE MCPlanning -----------------------------
(***************************************************************************)
(* The instances on which Planning is checked.  Node n has the ports       *)
(* 10n + 1 (out) and 10n + 2 (in); the link from a to b is 10a + b, its    *)
(* parallel twin 100 + 10a + b; endpoint 100 + n is bound to node n.       *)
(***************************************************************************)
EXTENDS Planning

DefaultLimits ==
  [max_nodes |-> 6, max_edges |-> 12, max_endpoints |-> 3, max_ports_per_node |-> 3,
   max_link_state_records |-> 12, max_port_state_records |-> 12,
   max_capability_bindings |-> 12, max_failure_domains |-> 3,
   max_members_per_failure_domain |-> 4,
   max_candidates_per_request |-> 5, max_hops |-> 6, max_constraints_total |-> 6,
   max_forbidden_ids |-> 3, max_required_ids |-> 3, max_required_any_sets |-> 3,
   max_members_in_any_set |-> 3, max_transit_alternatives |-> 5,
   max_transit_combinations |-> 4, max_capability_requirements |-> 3,
   max_forbidden_domain_classes |-> 2,
   max_expanded_states |-> 300, max_spur_searches |-> 40, max_queue_entries |-> 200,
   max_search_states |-> 40, max_retained_plans |-> 4, max_history_entries |-> 4,
   max_explanation_entries |-> 4, max_enumeration_candidates |-> 3,
   max_frame_bytes |-> 64, max_sessions |-> 1, max_concurrent_requests |-> 1,
   max_workers |-> 1, receive_bound_ms |-> 1, send_bound_ms |-> 1, connect_bound_ms |-> 1]

-----------------------------------------------------------------------------
(* Builder calls.                                                          *)

Node(n)  == [id |-> n, ports |-> <<10 * n + 1, 10 * n + 2>>, structural_generation |-> 1]
Link(a, b, cost) ==
  [id |-> 10 * a + b, from |-> a, to |-> b, from_port |-> 10 * a + 1, to_port |-> 10 * b + 2,
   layer |-> "PHYSICAL", relationship |-> "DIRECT_LINK", static_cost |-> cost,
   structural_generation |-> 1]
Bound(n) == [id |-> 100 + n, endpoint_class |-> "HOST", node |-> n, port |-> 10 * n + 1,
             entity_generation |-> 1]

AddNodeCall(n) == [op |-> "AddNode", arg |-> n]
AddEdgeCall(e) == [op |-> "AddEdge", arg |-> e]
AddEndpointCall(p) == [op |-> "AddEndpoint", arg |-> p]
Skip == [op |-> "Skip"]
Set(field, records) == [op |-> "SetView", field |-> field, arg |-> records]
SetDomains(domains, complete) ==
  [op |-> "SetFailureDomains", arg |-> domains, complete |-> complete]

Only(calls) == [i \in DOMAIN calls |-> {calls[i]}]

LinkRecords(links, state) == [i \in DOMAIN links |-> [link |-> links[i], state |-> state]]
PortRecords(ports) == [i \in DOMAIN ports |-> [port |-> ports[i], state |-> "UP"]]

\* The first calls of a builder: nodes 1..n, endpoints at 1 and n, all ports up.
Fabric(n) ==
  Only(<<[op |-> "SetGenerations", arg |-> [topology |-> 1, epoch |-> 1]]>>
         \o [i \in 1..n |-> AddNodeCall(Node(i))]
         \o <<AddEndpointCall(Bound(1)), AddEndpointCall(Bound(n)),
              Set("port_states", PortRecords(FlattenSeq([i \in 1..n |-> Node(i).ports])))>>)

AddAll(edges) == Only([i \in DOMAIN edges |-> AddEdgeCall(edges[i])])

Up(edges) == {Set("link_states", LinkRecords([i \in DOMAIN edges |-> edges[i].id], "UP"))}

-----------------------------------------------------------------------------
(* Requests.                                                               *)

NoConstraints ==
  [id |-> 1, layer |-> "PHYSICAL", forbidden_nodes |-> << >>, forbidden_links |-> << >>,
   forbidden_ports |-> << >>, forbidden_failure_domains |-> << >>,
   forbidden_failure_domain_classes |-> << >>, required_transit |-> << >>,
   required_capabilities |-> << >>, max_hops |-> Absent,
   max_members_per_failure_domain |-> Absent, fail_closed_on_unknown_domains |-> TRUE]

HopPolicy ==
  [hop_cost |-> 1, degraded_penalty |-> 2, locality_penalty |-> 0, locality_scope |-> << >>,
   allow_degraded_links |-> FALSE, allow_draining_ports |-> FALSE,
   allow_maintenance_ports |-> FALSE, require_operational_proof |-> TRUE,
   allow_zero_hop_self_path |-> FALSE, authority_validation |-> "NONE"]

Host(n) == [id |-> 100 + n, endpoint_class |-> "HOST", generation |-> 1]
Ask(from, to, k) ==
  [id |-> 1, source |-> Host(from), destination |-> Host(to), max_candidates |-> k,
   mode |-> "STANDARD", lacks_scope |-> FALSE, coordinator_epoch |-> Absent,
   expected_epoch |-> Absent, expected_topology |-> Absent,
   expected_snapshot |-> Absent,
   constraints |-> NoConstraints, policy |-> HopPolicy]

Scenario(calls, requests) ==
  [limits |-> DefaultLimits, calls |-> calls, requests |-> requests, authority |-> FALSE]

-----------------------------------------------------------------------------
(* K best paths over the graphs that a choice of seven links makes.        *)

Optional(a, b, costs) == {Skip} \cup {AddEdgeCall(Link(a, b, c)) : c \in costs}

FourNodeLinks == <<Link(1, 2, 0), Link(1, 3, 0), Link(1, 4, 0), Link(2, 3, 0), Link(2, 4, 0),
                   Link(3, 2, 0), Link(3, 4, 0)>>

Graphs4 == Scenario(
  Fabric(4) \o <<Up(FourNodeLinks)>>
    \o <<Optional(1, 2, {0, 1}), Optional(1, 3, {0, 2}), Optional(1, 4, {3}),
         Optional(2, 3, {0}), Optional(3, 2, {1}), Optional(2, 4, {0, 2}), Optional(3, 4, {0, 1})>>,
  {[Ask(1, 4, 5) EXCEPT !.policy.hop_cost = h, !.constraints.max_hops = m] :
     h \in {0, 1}, m \in {Absent, 2}})

\* Five nodes: two middle layers joined both ways, and zero-cost links, so that
\* spur paths tie in cost and differ in hops or only in their nodes.
Graphs5 == Scenario(
  Fabric(5)
    \o <<{Set("link_states", LinkRecords(<<12, 13, 23, 32, 24, 34, 35, 45, 25, 43, 15>>, "UP"))}>>
    \o AddAll(<<Link(1, 2, 0), Link(1, 3, 1), Link(3, 4, 0), Link(4, 5, 0)>>)
    \o <<Optional(2, 3, {0, 1}), Optional(3, 2, {0}), Optional(2, 4, {0, 1}),
         Optional(3, 5, {1, 2}), Optional(2, 5, {2}), Optional(4, 3, {0})>>,
  {[Ask(1, 5, 5) EXCEPT !.policy.hop_cost = h, !.constraints.max_hops = m] :
     h \in {0, 1}, m \in {Absent, 3}})

-----------------------------------------------------------------------------
(* Which links may be used: a diamond 1-2-4 / 1-3-4 whose records vary.    *)

DiamondLinks == <<Link(1, 2, 1), Link(2, 4, 1), Link(1, 3, 2), Link(3, 4, 0)>>
Diamond == Fabric(4) \o AddAll(DiamondLinks) \o <<Up(DiamondLinks)>>

\* Link 12 and port 12 (the in-port of node 1 is never used; 22 is that of node
\* 2) take every state; link 34 has no record, or is down, or up.
Policies ==
  {[Ask(1, 4, 2) EXCEPT !.mode = m, !.policy.allow_degraded_links = a,
      !.policy.allow_draining_ports = a, !.policy.require_operational_proof = p] :
     m \in PlanningModes, a \in BOOLEAN, p \in BOOLEAN}
   \cup {[Ask(1, 4, 1) EXCEPT !.policy.allow_maintenance_ports = TRUE]}

States == Scenario(
  Diamond
    \o <<{Set("link_states", <<[link |-> 12, state |-> s], [link |-> 24, state |-> "UP"],
                               [link |-> 13, state |-> "UP"]>> \o t) :
            s \in LinkStateNames,
            t \in {<< >>, <<[link |-> 34, state |-> "UP"]>>, <<[link |-> 34, state |-> "DOWN"]>>}},
         {Set("port_states", PortRecords(<<11, 21, 31, 32, 42>>)
                               \o <<[port |-> 22, state |-> s]>>) : s \in PortStateNames}>>,
  Policies)

\* Two records of a link survive Build unless they are neighbours.
Duplicates == Scenario(
  Diamond \o <<{Set("link_states", <<[link |-> 12, state |-> "UP"], [link |-> 24, state |-> "UP"],
                                     [link |-> 12, state |-> "DOWN"]>>)}>>,
  {[Ask(1, 4, 2) EXCEPT !.constraints.forbidden_nodes = <<3>>]})

-----------------------------------------------------------------------------
(* Capabilities, failure domains, forbidden entities, locality.            *)

Requires(scope, comparator, value) ==
  [capability |-> 1, scope |-> scope, comparator |-> comparator, value |-> value]
Bind(subject, value) == [subject |-> subject, capability |-> 1, value |-> value]
Domain(id, class, members) == [domain |-> id, risk_class |-> class, members |-> members]

WithConstraints(field, values) ==
  {[Ask(1, 4, 3) EXCEPT !.constraints[field] = v] : v \in values}

CapabilityRequests == WithConstraints("required_capabilities",
  {<<Requires(s, "AT_LEAST", 2)>> : s \in CapabilityScopes}
    \cup {<<Requires("SOURCE_NODE", "AT_MOST", 1), Requires("EVERY_LINK", "EQUAL", 2)>>})

Capabilities == Scenario(
  Diamond
    \o <<{Set("capabilities", records \o <<Bind(ForNode(4), 2)>>) :
            records \in {<<Bind(ForNode(1), n), Bind(ForNode(2), m), Bind(ForNode(3), 2)>> :
                           n \in 1..2, m \in 1..2}
                          \cup {<<Bind(ForNode(1), 1), Bind(ForLink(12), 2), Bind(ForLink(24), n),
                                  Bind(ForPort(11), 2), Bind(ForPort(22), n),
                                  Bind(ForPort(21), 2), Bind(ForPort(42), 2)>> : n \in 1..2}}>>,
  CapabilityRequests)

DomainRequests ==
  {[r EXCEPT !.constraints.fail_closed_on_unknown_domains = f] : f \in BOOLEAN,
     r \in WithConstraints("forbidden_failure_domains", {<<1>>, <<2, 3>>})
             \cup WithConstraints("forbidden_failure_domain_classes", {<<7>>})
             \cup WithConstraints("max_members_per_failure_domain", {1, 2})}

Domains == Scenario(
  Diamond
    \o <<{SetDomains(d, complete) : complete \in BOOLEAN,
            d \in {<<Domain(1, 7, <<ForLink(12), ForLink(24), ForNode(9)>>)>>,
                   <<Domain(1, 8, <<ForNode(2)>>), Domain(2, 7, <<ForPort(31), ForLink(12)>>)>>,
                   <<Domain(2, 8, <<ForLink(12), ForLink(24), ForLink(13), ForLink(34)>>)>>}}>>,
  DomainRequests)

ForbiddenRequests ==
  WithConstraints("forbidden_nodes", {<<2>>, <<2, 3>>, <<1>>, <<4>>})
    \cup WithConstraints("forbidden_links", {<<12>>, <<12, 34>>, <<12, 13, 24>>})
    \cup WithConstraints("forbidden_ports", {<<11>>, <<22>>})
    \cup WithConstraints("layer", {"LOGICAL"})
    \cup WithConstraints("max_hops", {0, 1, 2, 3})
    \cup {[Ask(1, 4, 3) EXCEPT !.policy.locality_scope = <<2, 4>>, !.policy.locality_penalty = p] :
            p \in {1, 15}}

\* With few explanation entries the log fills up before the cause is found.
Forbids == Scenario(Diamond \o <<Optional(1, 4, {0})>>, ForbiddenRequests)
FullLog == [Forbids EXCEPT !.limits.max_explanation_entries = 1]

\* No path at all: node 4 is only reached by a link of another layer.
Islands == Scenario(
  Fabric(4) \o AddAll(<<Link(1, 2, 1), Link(3, 4, 1)>>) \o <<Up(DiamondLinks)>>
    \o <<{Skip, AddEdgeCall([Link(2, 4, 1) EXCEPT !.layer = "TUNNEL",
                                                  !.relationship = "TUNNEL_ENCAPSULATION"]),
          AddEdgeCall([Link(2, 4, 1) EXCEPT !.layer = "LOGICAL",
                                            !.relationship = "LOGICAL_ADJACENCY"])}>>,
  ForbiddenRequests)

-----------------------------------------------------------------------------
(* Required transit over five nodes.                                       *)

FiveLinks == <<Link(1, 2, 0), Link(1, 3, 1), Link(2, 3, 0), Link(3, 2, 0), Link(2, 4, 1),
               Link(3, 4, 0), Link(4, 5, 0), Link(2, 5, 4), Link(4, 3, 0)>>

Exact(n)   == [kind |-> "EXACT", alternatives |-> <<n>>]
AnyOf(s)   == [kind |-> "ANY_OF", alternatives |-> s]

TransitRequests ==
  {[Ask(1, 5, k) EXCEPT !.constraints.required_transit = t, !.constraints.max_hops = m] :
     k \in {1}, m \in {Absent, 1, 3},
     t \in {<<Exact(3)>>, <<Exact(9)>>, <<AnyOf(<<2, 3>>)>>, <<AnyOf(<<3, 2>>), Exact(4)>>,
            <<Exact(4), Exact(3)>>, <<Exact(1), AnyOf(<<4, 9>>)>>, <<Exact(5)>>,
            <<Exact(4), AnyOf(<<1>>)>>,
            <<AnyOf(<<2, 3>>), AnyOf(<<3, 2>>)>>, <<AnyOf(<<2, 3>>), AnyOf(<<2, 3, 4>>)>>}}
  \cup {[Ask(1, 5, 2) EXCEPT !.constraints.required_transit = <<Exact(3)>>],
        [Ask(1, 5, 1) EXCEPT !.constraints.required_transit = <<Exact(3)>>,
                             !.policy.hop_cost = 5],
        [Ask(1, 1, 1) EXCEPT !.constraints.required_transit = <<Exact(3)>>],
        [Ask(1, 1, 1) EXCEPT !.constraints.required_transit = <<Exact(1)>>]}

Transit == Scenario(Fabric(5) \o AddAll(FiveLinks) \o <<Up(FiveLinks)>>, TransitRequests)

\* Two of the links to and from the required node share a domain, or the domains
\* of most links are not known.
TransitLimit == Scenario(
  Fabric(5) \o AddAll(FiveLinks) \o <<Up(FiveLinks)>>
    \o <<{SetDomains(<<Domain(1, 7, <<ForLink(12), ForLink(23)>>)>>, c) : c \in BOOLEAN}>>,
  {[Ask(1, 5, 1) EXCEPT !.constraints.required_transit = t,
                        !.constraints.max_members_per_failure_domain = n] :
     n \in 1..2, t \in {<< >>, <<Exact(3)>>}})

-----------------------------------------------------------------------------
(* Costs near CostMax, work budgets, the enumeration ceiling.              *)

Costs == Scenario(
  Fabric(4) \o <<Up(DiamondLinks)>>
    \o <<Optional(1, 2, {7, 14}), Optional(2, 4, {5, 6, 7, 8}), Optional(1, 3, {0, 13}),
         Optional(3, 4, {0, 1, 2, 15})>>,
  {[Ask(1, 4, 2) EXCEPT !.policy.hop_cost = h] : h \in {0, 1}})

\* A budget of n for one of the counters.
Budget(field, n) == [Scenario(Fabric(4) \o AddAll(FourNodeLinks) \o <<Up(FourNodeLinks)>>,
                              {[Ask(1, 4, 3) EXCEPT !.constraints.max_hops = m] :
                                 m \in {Absent, 2}}) EXCEPT !.limits[field] = n]
BudgetLimits == <<<<"max_expanded_states", 1>>, <<"max_expanded_states", 5>>,
                  <<"max_expanded_states", 12>>, <<"max_queue_entries", 1>>,
                  <<"max_queue_entries", 2>>, <<"max_queue_entries", 4>>,
                  <<"max_queue_entries", 9>>, <<"max_spur_searches", 1>>,
                  <<"max_spur_searches", 3>>, <<"max_search_states", 8>>,
                  <<"max_enumeration_candidates", 1>>>>
Budgets == [i \in DOMAIN BudgetLimits |-> Budget(BudgetLimits[i][1], BudgetLimits[i][2])]

\* All links but 14 in one domain: the ceiling is reached before compliant paths.
Ceiling == [Scenario(Fabric(4) \o AddAll(FourNodeLinks) \o <<Up(FourNodeLinks)>>
                       \o Only(<<SetDomains(<<Domain(1, 7, <<ForLink(12), ForLink(24),
                                                              ForLink(13), ForLink(34)>>)>>, TRUE)>>),
                     {[Ask(1, 4, k) EXCEPT !.constraints.max_members_per_failure_domain = n] :
                        k \in 1..3, n \in 1..2}) EXCEPT !.limits.max_enumeration_candidates = 3]

-----------------------------------------------------------------------------
(* The Path Authority, self paths, expectations about generations.         *)

AuthorityRequests == {[Ask(1, 4, 2) EXCEPT !.policy.authority_validation = m] :
                        m \in AuthorityValidationModes}
WithAuthority    == [Scenario(Diamond, AuthorityRequests) EXCEPT !.authority = TRUE]
WithoutAuthority == Scenario(Diamond, AuthorityRequests)

Fences == Scenario(Diamond,
  {[Ask(1, 1, 2) EXCEPT !.policy.allow_zero_hop_self_path = a] : a \in BOOLEAN}
  \cup {[Ask(1, 4, 1) EXCEPT !.lacks_scope = TRUE]}
  \cup {[Ask(1, 4, 1) EXCEPT ![f] = n] : n \in 1..2,
          f \in {"coordinator_epoch", "expected_epoch", "expected_topology", "expected_snapshot"}}
  \cup {Ask(1, 3, 1), Ask(3, 4, 1)}
  \cup {[Ask(1, 4, 1) EXCEPT ![e].generation = 2] : e \in {"source", "destination"}}
  \cup {[Ask(1, 4, 1) EXCEPT ![e].endpoint_class = "GATEWAY"] : e \in {"source", "destination"}})

-----------------------------------------------------------------------------
(* Malformed calls and malformed requests, one at a time.                  *)

BadNodes == {[Node(6) EXCEPT !.id = NilId], [Node(6) EXCEPT !.ports = <<61, NilId>>],
             [Node(6) EXCEPT !.ports = <<61, 62, 63, 64>>],
             [Node(6) EXCEPT !.ports = <<61, 61>>], [Node(6) EXCEPT !.structural_generation = 2],
             Node(1)}
BadEdges == {[Link(2, 3, 1) EXCEPT ![f] = NilId] : f \in {"id", "from", "to", "from_port", "to_port"}}
  \cup {Link(2, 2, 1), Link(1, 2, 1), Link(2, 5, 1), [Link(2, 3, 1) EXCEPT !.from_port = 11],
        [Link(2, 3, 1) EXCEPT !.layer = "LOGICAL"], [Link(2, 3, 1) EXCEPT !.relationship = "NONE"],
        [Link(2, 3, 1) EXCEPT !.relationship = "PORT_PAIRING", !.structural_generation = 2]}
BadEndpoints == {[Bound(2) EXCEPT !.port = NilId], [Bound(2) EXCEPT !.port = 11],
                 [Bound(2) EXCEPT !.id = 101]}
ViewOf(field, r, n) == Set(field, [i \in 1..n |-> r])
BadViews ==
  {ViewOf("link_states", [link |-> 12, state |-> "UP"], n) : n \in {2, 13}}
  \cup {ViewOf("port_states", [port |-> 11, state |-> "UP"], n) : n \in {2, 13}}
  \cup {ViewOf("capabilities", Bind(ForNode(1), 1), n) : n \in {2, 13}}
  \cup {SetDomains([i \in 1..n |-> Domain(1, 7, << >>)], TRUE) : n \in {2, 4}}
  \cup {SetDomains(<<Domain(NilId, 7, << >>)>>, TRUE),
        SetDomains(<<Domain(1, 7, [i \in 1..5 |-> ForLink(i)])>>, TRUE)}

BadBuilds == Scenario(
  Diamond \o <<{AddNodeCall(n) : n \in BadNodes} \cup {AddEdgeCall(e) : e \in BadEdges}
                 \cup {AddEndpointCall(p) : p \in BadEndpoints} \cup BadViews>>,
  {Ask(1, 4, 2)})

\* The encoding of a lone node with 63 ports just fits, that with 64 does not.
ManyPorts == [Scenario(
  <<{[op |-> "SetGenerations", arg |-> [topology |-> 1, epoch |-> 1]]},
    {AddNodeCall([Node(1) EXCEPT !.ports = [i \in 1..n |-> i]]) : n \in {63, 64}}>>,
  {Ask(1, 4, 1)}) EXCEPT !.limits.max_ports_per_node = 64]

\* A builder at its limits, and limits that Build refuses.
Full(field, n) == [Scenario(Diamond \o Only(<<AddNodeCall(Node(5)), AddEdgeCall(Link(2, 3, 1)),
                                              AddEndpointCall(Bound(2))>>), {Ask(1, 4, 2)})
                     EXCEPT !.limits[field] = n]
FullLimits == <<<<"max_nodes", 4>>, <<"max_edges", 4>>, <<"max_endpoints", 2>>,
                <<"max_candidates_per_request", 6>>, <<"max_hops", 0>>, <<"max_frame_bytes", 63>>,
                <<"max_sessions", 0>>, <<"send_bound_ms", 0>>, <<"max_spur_searches", 0>>,
                <<"max_history_entries", 0>>, <<"max_required_ids", 0>>,
                <<"max_required_any_sets", 0>>, <<"max_ports_per_node", 0>>>>
Fulls == [i \in DOMAIN FullLimits |-> Full(FullLimits[i][1], FullLimits[i][2])]

BadConstraints ==
  {[NoConstraints EXCEPT ![f] = v] : f \in {"forbidden_nodes", "forbidden_links",
       "forbidden_ports", "forbidden_failure_domains"},
     v \in {<<NilId>>, <<8, 8>>, <<6, 7, 8, 9>>, <<1, 2, 3, 4, 5, 6, 7>>}}
  \cup {[NoConstraints EXCEPT !.forbidden_failure_domain_classes = <<1, 2, 3>>],
        [NoConstraints EXCEPT !.id = NilId], [NoConstraints EXCEPT !.layer = "NONE"],
        [NoConstraints EXCEPT !.max_hops = 7],
        [NoConstraints EXCEPT !.max_members_per_failure_domain = 0]}
  \cup {[NoConstraints EXCEPT !.required_transit = t] :
          t \in {<<AnyOf(<< >>)>>, <<[kind |-> "EXACT", alternatives |-> <<2, 3>>]>>,
                 <<AnyOf(<<1, 2, 3, 4>>)>>, <<AnyOf(<<NilId>>)>>, <<AnyOf(<<2, 2>>)>>,
                 <<Exact(2), Exact(2), Exact(2), Exact(2)>>}}
  \cup {[NoConstraints EXCEPT !.required_capabilities = q] :
          q \in {<<Requires("SOME_NODE", "AT_LEAST", 1)>>, <<Requires("EVERY_NODE", "NEAR", 1)>>,
                 <<[Requires("EVERY_NODE", "EQUAL", 1) EXCEPT !.capability = NilId]>>,
                 [i \in 1..4 |-> Requires("EVERY_NODE", "EQUAL", i)]}}
BadPolicies == {[HopPolicy EXCEPT !.locality_scope = s] : s \in {<<NilId>>, <<2, 2>>, <<1, 2, 3, 4>>}}
  \cup {[HopPolicy EXCEPT !.locality_penalty = 1], [HopPolicy EXCEPT !.authority_validation = "SOME"]}

BadRequests == Scenario(Diamond,
  {[Ask(1, 4, 1) EXCEPT !.constraints = c] : c \in BadConstraints}
  \cup {[Ask(1, 4, 1) EXCEPT !.policy = p] : p \in BadPolicies}
  \cup {[Ask(1, 4, 1) EXCEPT !.id = NilId], [Ask(1, 4, 1) EXCEPT !.source.id = NilId],
        [Ask(1, 4, 1) EXCEPT !.mode = "NONE"], [Ask(1, 4, 1) EXCEPT !.expected_topology = 0],
        [Ask(1, 4, 1) EXCEPT !.expected_snapshot = NilId],
        Ask(1, 4, 0), Ask(1, 4, 6)})

-----------------------------------------------------------------------------
(* Parallel links.                                                         *)

Twin(e, cost) == [e EXCEPT !.id = @ + 100, !.static_cost = cost]

\* Two links join 1 and 2, and two join 2 and 3.
Twins == Scenario(
  Fabric(3) \o AddAll(<<Link(1, 2, 0), Twin(Link(1, 2, 0), 2), Link(2, 3, 0)>>)
    \o <<{Skip, AddEdgeCall(Twin(Link(2, 3, 0), 1))},
         {Set("link_states", LinkRecords(<<12, 112, 23, 123>>, "UP"))}>>,
  {Ask(1, 3, k) : k \in 1..5})

AllScenarios == <<Graphs4, Graphs5, States, Duplicates, Capabilities, Domains, Forbids, FullLog, Islands, Transit,
                  TransitLimit, Costs, Ceiling, WithAuthority, WithoutAuthority, Fences, BadBuilds,
                  BadRequests, ManyPorts, Twins>> \o Budgets \o Fulls
TwinScenarios == <<Twins>>
=============================================================================
