--------------------------- MODULE PlanningProofs ---------------------------
(***************************************************************************)
(* What is proved of a plan for every fabric, every request and every      *)
(* sequence of builder calls: a published snapshot is coherent, the filter *)
(* keeps exactly the usable links, every answer is honest about what was   *)
(* asked, proven and spent, and every plan returns.                        *)
(***************************************************************************)
EXTENDS Planning, SearchProofs

-----------------------------------------------------------------------------
(* The scan for the first failing check.                                   *)

\* When the scan reports no failure, no check failed.
LEMMA NoFailure ==
    ASSUME NEW n \in Nat, NEW checks, Len(checks) = n,
           \A i \in 1..n : checks[i][1] => checks[i][2] # OK,
           FirstFailure(checks) = OK
    PROVE  \A i \in 1..n : ~checks[i][1]
    <1> DEFINE I == {i \in 1..n : checks[i][1]}
    <1>1. FirstFailure(checks) = IF (IF I # {} THEN Min(I) ELSE 0) = 0 THEN OK
                                 ELSE checks[IF I # {} THEN Min(I) ELSE 0][2]
        BY DEF FirstFailure, SelectInSeq
    <1>2. CASE I # {}
        <2>1. Min(I) \in I
            BY <1>2, MinIsLeast
        <2>2. Min(I) # 0
            BY <2>1
        <2> QED
            BY <1>1, <1>2, <2>1, <2>2
    <1>3. CASE I = {}
        BY <1>3
    <1> QED
        BY <1>2, <1>3

-----------------------------------------------------------------------------
(* The builder.                                                            *)

\* What the Add calls establish and Build relies on without checking again.
GoodEdges(edges) ==
  /\ edges \in Seq(Range(edges))
  /\ \A e \in Range(edges) : /\ e.from # e.to
                              /\ RelationshipMatchesLayer(e.relationship, e.layer)

\* The inductive invariant: the builder's links were all vetted when they were
\* added, which no check of Build repeats, and the snapshot is coherent.
BuilderInv ==
  /\ scenario \in DOMAIN Scenarios
  /\ step \in Nat \ {0}
  /\ "edges" \in DOMAIN builder
  /\ GoodEdges(builder.edges)
  /\ SnapshotCoherent

\* Adding an edge that names two ends keeps the edges good.
LEMMA AppendGood ==
    ASSUME NEW edges, GoodEdges(edges), NEW e, e.from # e.to,
           RelationshipMatchesLayer(e.relationship, e.layer)
    PROVE  GoodEdges(Append(edges, e))
    <1> DEFINE T == Range(edges)
               more == Append(edges, e)
               n == Len(edges)
    <1>1. edges \in Seq(T) /\ n \in Nat /\ DOMAIN edges = 1..n
        BY DEF GoodEdges
    <1>2. /\ DOMAIN more = 1..(n + 1)
          /\ \A i \in 1..n : more[i] = edges[i]
          /\ more[n + 1] = e
          /\ more \in Seq(T \cup {e})
          /\ Len(more) = n + 1
        BY <1>1
    <1>3. Range(more) = T \cup {e}
        <2> HIDE DEF more, n
        <2>1. \A x \in T : \E i \in 1..n : x = edges[i]
            BY <1>1 DEF Range
        <2>2. \A i \in 1..n : i \in 1..(n + 1) /\ edges[i] \in T
            BY <1>1 DEF Range
        <2>3. n + 1 \in 1..(n + 1)
            BY <1>1
        <2>4. \A i \in 1..(n + 1) : i \in 1..n \/ i = n + 1
            BY <1>1
        <2> HIDE DEF T
        <2> QED
            BY <1>2, <2>1, <2>2, <2>3, <2>4 DEF Range
    <1>4. \A x \in T : /\ x.from # x.to
                       /\ RelationshipMatchesLayer(x.relationship, x.layer)
        BY DEF GoodEdges
    <1>5. \A x \in Range(more) : /\ x.from # x.to
                                 /\ RelationshipMatchesLayer(x.relationship, x.layer)
        <2> HIDE DEF more, T
        <2> QED
            BY <1>3, <1>4, Zenon
    <1>6. more \in Seq(Range(more))
        <2> HIDE DEF more, T
        <2> QED
            BY <1>2, <1>3, Zenon
    <1>7. GoodEdges(more)
        <2> HIDE DEF more
        <2> QED
            BY <1>5, <1>6, Zenon DEF GoodEdges
    <1> QED
        BY <1>7

\* Only AddEdge writes the links, and it refuses what is not vetted.
LEMMA EdgeAccepted ==
    ASSUME NEW e, EdgeRejection(e) = OK
    PROVE  e.from # e.to /\ RelationshipMatchesLayer(e.relationship, e.layer)
    <1> DEFINE checks == <<
          <<Len(builder.edges) + 1 > builder.limits.max_edges, "TOO_MANY_EDGES">>,
          <<NilId \in {e.id, e.from, e.to, e.from_port, e.to_port}, "MALFORMED_IDENTIFIER">>,
          <<e.from = e.to, "SELF_LOOP_REJECTED">>,
          <<~RelationshipMatchesLayer(e.relationship, e.layer), "LAYER_MISMATCH">>,
          <<e.structural_generation > builder.generations.topology,
            "TOPOLOGY_GENERATION_MISMATCH">> >>
    <1>1. FirstFailure(checks) = OK
        BY DEF EdgeRejection
    <1>2. Len(checks) = 5
        OBVIOUS
    <1>3. \A i \in 1..5 : checks[i][2] # OK
        BY DEF OK
    <1>4. checks[3][1] = (e.from = e.to)
          /\ checks[4][1] = ~RelationshipMatchesLayer(e.relationship, e.layer)
        OBVIOUS
    <1> HIDE DEF checks
    <1>5. \A i \in 1..5 : ~checks[i][1]
        BY <1>1, <1>2, <1>3, NoFailure
    <1>6. ~checks[3][1] /\ ~checks[4][1]
        BY <1>5
    <1> QED
        BY <1>4, <1>6, Zenon

\* What a successful Build has checked.
LEMMA BuildChecks ==
    ASSUME BuildFailure(builder) = OK
    PROVE  /\ ~HasDuplicate(IdsOf(builder.nodes))
           /\ ~HasDuplicate(IdsOf(builder.edges))
           /\ ~HasDuplicate(IdsOf(builder.endpoints))
           /\ \A e \in Range(builder.edges) :
                /\ PublishesPort(Range(builder.nodes), e.from, e.from_port)
                /\ PublishesPort(Range(builder.nodes), e.to, e.to_port)
           /\ \A p \in Range(builder.endpoints) :
                PublishesPort(Range(builder.nodes), p.node, p.port)
    <1> DEFINE b == builder
               nodes == Range(b.nodes)
               loose == \E e \in Range(b.edges) : \/ ~PublishesPort(nodes, e.from, e.from_port)
                                                 \/ ~PublishesPort(nodes, e.to, e.to_port)
               unbound == \E p \in Range(b.endpoints) : ~PublishesPort(nodes, p.node, p.port)
               checks == <<
                 <<ValidateLimits(b.limits) # OK, ValidateLimits(b.limits)>>,
                 <<HasDuplicate(IdsOf(b.nodes)), "DUPLICATE_IDENTIFIER">>,
                 <<HasDuplicate(IdsOf(b.edges)), "DUPLICATE_IDENTIFIER">>,
                 <<loose, "NO_STRUCTURAL_PATH">>,
                 <<HasDuplicate(IdsOf(b.endpoints)), "AMBIGUOUS_ENDPOINT">>,
                 <<unbound, "UNKNOWN_ENDPOINT">>,
                 <<ViewFailure(b) # OK, ViewFailure(b)>> >>
    <1>1. FirstFailure(checks) = OK
        BY DEF BuildFailure
    <1> HIDE DEF loose, unbound
    <1>2. Len(checks) = 7
        OBVIOUS
    <1>3. \A i \in 1..7 : checks[i][1] => checks[i][2] # OK
        <2>1. \A i \in 2..6 : checks[i][2] # OK
            BY DEF OK
        <2>2. /\ checks[1][1] = (ValidateLimits(b.limits) # OK)
              /\ checks[1][2] = ValidateLimits(b.limits)
              /\ checks[7][1] = (ViewFailure(b) # OK)
              /\ checks[7][2] = ViewFailure(b)
            OBVIOUS
        <2> HIDE DEF checks
        <2>3. (checks[1][1] => checks[1][2] # OK) /\ (checks[7][1] => checks[7][2] # OK)
            BY <2>2, Zenon
        <2>4. \A i \in 1..7 : i = 1 \/ i \in 2..6 \/ i = 7
            OBVIOUS
        <2> QED
            BY <2>1, <2>3, <2>4, Zenon
    <1>4. /\ checks[2][1] = HasDuplicate(IdsOf(b.nodes))
          /\ checks[3][1] = HasDuplicate(IdsOf(b.edges))
          /\ checks[4][1] = loose
          /\ checks[5][1] = HasDuplicate(IdsOf(b.endpoints))
          /\ checks[6][1] = unbound
        OBVIOUS
    <1> HIDE DEF checks
    <1>5. \A i \in 1..7 : ~checks[i][1]
        BY <1>1, <1>2, <1>3, NoFailure
    <1>6. ~checks[2][1] /\ ~checks[3][1] /\ ~checks[4][1] /\ ~checks[5][1] /\ ~checks[6][1]
        BY <1>5
    <1>7. ~loose /\ ~unbound
        BY <1>4, <1>6, Zenon
    <1>8. /\ ~HasDuplicate(IdsOf(b.nodes))
          /\ ~HasDuplicate(IdsOf(b.edges))
          /\ ~HasDuplicate(IdsOf(b.endpoints))
        BY <1>4, <1>6, Zenon
    <1> QED
        BY <1>7, <1>8, Zenon DEF loose, unbound

\* Records whose identifiers are pairwise different are told apart by them.
LEMMA IdsAreUnique ==
    ASSUME NEW s, ~HasDuplicate(IdsOf(s))
    PROVE  \A x, y \in Range(s) : x.id = y.id => x = y
    <1> SUFFICES ASSUME NEW x \in Range(s), NEW y \in Range(s), x.id = y.id
                 PROVE  x = y
        OBVIOUS
    <1>1. PICK i \in DOMAIN s : s[i] = x
        BY DEF Range
    <1>2. PICK j \in DOMAIN s : s[j] = y
        BY DEF Range
    <1>3. IdsOf(s)[i] = IdsOf(s)[j] /\ DOMAIN IdsOf(s) = DOMAIN s
        BY <1>1, <1>2 DEF IdsOf
    <1> QED
        BY <1>1, <1>2, <1>3 DEF HasDuplicate

\* The snapshot of a successful Build is coherent.
LEMMA PublishedIsCoherent ==
    ASSUME BuildFailure(builder) = OK, GoodEdges(builder.edges),
           NEW links, NEW ports, NEW caps, NEW classes,
           snapshot' = Published(builder, links, ports, caps, classes)
    PROVE  SnapshotCoherent'
    <1>1. /\ snapshot'.nodes = Range(builder.nodes)
          /\ snapshot'.edges = Range(builder.edges)
          /\ snapshot'.endpoints = Range(builder.endpoints)
        BY DEF Published
    <1>2. \A field \in {"nodes", "edges", "endpoints"} :
            \A x, y \in snapshot'[field] : x.id = y.id => x = y
        BY <1>1, BuildChecks, IdsAreUnique
    <1>3. \A e \in snapshot'.edges :
            /\ e.from # e.to
            /\ RelationshipMatchesLayer(e.relationship, e.layer)
            /\ \E n \in snapshot'.nodes : n.id = e.from /\ e.from_port \in n.ports
            /\ \E n \in snapshot'.nodes : n.id = e.to /\ e.to_port \in n.ports
        BY <1>1, BuildChecks DEF PublishesPort, GoodEdges
    <1>4. \A p \in snapshot'.endpoints :
            \E n \in snapshot'.nodes : n.id = p.node /\ p.port \in n.ports
        BY <1>1, BuildChecks DEF PublishesPort
    <1> QED
        BY <1>2, <1>3, <1>4 DEF SnapshotCoherent

-----------------------------------------------------------------------------
(* The steps.                                                              *)

\* An empty builder.
LEMMA InitBuilder ==
    ASSUME Init
    PROVE  BuilderInv
    <1>1. builder.edges = << >> /\ "edges" \in DOMAIN builder
        BY DEF Init, NewBuilder
    <1>2. GoodEdges(<< >>)
        BY DEF GoodEdges, Range
    <1>3. ~snapshot.ok
        BY DEF Init, NoSnapshot
    <1> QED
        BY <1>1, <1>2, <1>3 DEF Init, BuilderInv, SnapshotCoherent

\* Every call of the builder keeps its invariant.
LEMMA BuilderCall ==
    ASSUME BuilderInv, CallBuilder
    PROVE  BuilderInv'
    <1>1. PICK c \in S.calls[step] : Invoke(c)
        BY DEF CallBuilder
    <1>2. /\ scenario' = scenario /\ step' = step + 1 /\ step <= Len(S.calls)
          /\ snapshot' = snapshot
        BY <1>1 DEF CallBuilder, Invoke, AddNode, AddEdge, AddEndpoint, Accept, SetGenerations,
                    SetView, SetFailureDomains
    <1>3. "edges" \in DOMAIN builder' /\ GoodEdges(builder.edges)'
        <2>1. CASE c.op = "AddNode" /\ AddNode(c.arg)
            BY <2>1 DEF AddNode, Accept, BuilderInv
        <2>2. CASE c.op = "AddEdge" /\ AddEdge(c.arg)
            BY <2>2, EdgeAccepted, AppendGood DEF AddEdge, Accept, BuilderInv
        <2>3. CASE c.op = "AddEndpoint" /\ AddEndpoint(c.arg)
            BY <2>3 DEF AddEndpoint, Accept, BuilderInv
        <2>4. CASE c.op = "SetGenerations" /\ SetGenerations(c.arg)
            BY <2>4 DEF SetGenerations, BuilderInv
        <2>5. CASE c.op = "SetView" /\ SetView(c.field, c.arg)
            <3>1. Call(c)
                BY <1>1, <1>2, ScenarioAssumption DEF BuilderInv, S
            <3>2. c.field \in {"link_states", "port_states", "capabilities"}
                BY <2>5, <3>1 DEF Call
            <3> QED
                BY <2>5, <3>2 DEF SetView, BuilderInv
        <2>6. CASE c.op = "SetFailureDomains" /\ SetFailureDomains(c.arg, c.complete)
            BY <2>6 DEF SetFailureDomains, BuilderInv
        <2>7. CASE UNCHANGED <<builder, snapshot>>
            BY <2>7 DEF BuilderInv
        <2> QED
            BY <1>1, <2>1, <2>2, <2>3, <2>4, <2>5, <2>6, <2>7 DEF Invoke
    <1>4. SnapshotCoherent'
        BY <1>2 DEF BuilderInv, SnapshotCoherent
    <1> QED
        BY <1>2, <1>3, <1>4 DEF BuilderInv

\* So does Build, and what it publishes is coherent.
LEMMA BuildCall ==
    ASSUME BuilderInv, CallBuild
    PROVE  BuilderInv'
    <1>1. scenario' = scenario /\ step' = step
        BY DEF CallBuild
    <1>2. CASE BuildFailure(builder) # OK
        <2>1. builder' = builder /\ ~snapshot'.ok
            BY <1>2 DEF CallBuild, Build
        <2>2. SnapshotCoherent'
            BY <2>1 DEF SnapshotCoherent
        <2> QED
            BY <1>1, <2>1, <2>2 DEF BuilderInv
    <1>3. CASE BuildFailure(builder) = OK
        <2>1. builder' = Emptied(builder)
            BY <1>3 DEF CallBuild, Build
        <2>2. SnapshotCoherent'
            <3>1. CASE EncodingOverflows(builder)
                <4>1. ~snapshot'.ok
                    BY <1>3, <3>1 DEF CallBuild, Build
                <4> QED
                    BY <4>1 DEF SnapshotCoherent
            <3>2. CASE ~EncodingOverflows(builder)
                <4>1. \E links, ports, caps, classes :
                         snapshot' = Published(builder, links, ports, caps, classes)
                    BY <1>3, <3>2 DEF CallBuild, Build
                <4> QED
                    BY <1>3, <4>1, PublishedIsCoherent DEF BuilderInv
            <3> QED
                BY <3>1, <3>2
        <2>3. builder'.edges = << >> /\ "edges" \in DOMAIN builder'
            BY <2>1 DEF NewBuilder, Emptied
        <2>4. GoodEdges(<< >>)
            BY DEF GoodEdges, Range
        <2> QED
            BY <1>1, <2>2, <2>3, <2>4 DEF BuilderInv
    <1> QED
        BY <1>2, <1>3

\* Every step keeps the invariant of the builder.
LEMMA BuilderStep ==
    ASSUME BuilderInv, [Next]_vars
    PROVE  BuilderInv'
    <1>1. CASE CallBuilder
        BY <1>1, BuilderCall
    <1>2. CASE CallBuild
        BY <1>2, BuildCall
    <1>3. CASE UNCHANGED <<builder, snapshot, scenario, step>>
        BY <1>3 DEF BuilderInv, SnapshotCoherent
    <1>4. (\E r \in S.requests : Plan(r)) \/ Enumerate \/ Conclude \/ Done \/ UNCHANGED vars
            => UNCHANGED <<builder, snapshot, scenario, step>>
        BY DEF Plan, Enumerate, Conclude, Done, vars
    <1> QED
        BY <1>1, <1>2, <1>3, <1>4 DEF Next

\* A snapshot that Build publishes is coherent, whatever calls were made on the
\* builder before it and whatever limits it was given (graph.cpp).
THEOREM SnapshotIsCoherent == Spec => []SnapshotCoherent
    <1>1. Init => BuilderInv
        BY InitBuilder
    <1>2. BuilderInv /\ [Next]_vars => BuilderInv'
        BY BuilderStep
    <1>3. BuilderInv => SnapshotCoherent
        BY DEF BuilderInv
    <1> QED
        BY <1>1, <1>2, <1>3, PTL DEF Spec

-----------------------------------------------------------------------------
(* The types of the records, from the calls to the snapshot.               *)

\* The types of a published snapshot.
SnapshotTyped(s) ==
  /\ s.nodes \in SUBSET NodeRecords /\ IsFiniteSet(s.nodes)
  /\ s.edges \in SUBSET EdgeRecords /\ IsFiniteSet(s.edges)
  /\ s.endpoints \in SUBSET EndpointRecords
  /\ \A id : LinkStateOf(s, id) \in LinkStateNames
  /\ \A id : PortStateOf(s, id) \in PortStateNames

\* The types of the records on their way from a call to the snapshot.
RecordsInv ==
  /\ scenario \in DOMAIN Scenarios
  /\ step \in 1..(Len(S.calls) + 1)
  /\ {"nodes", "edges", "endpoints", "link_states", "port_states"} \subseteq DOMAIN builder
  /\ builder.nodes \in Seq(NodeRecords)
  /\ builder.edges \in Seq(EdgeRecords)
  /\ builder.endpoints \in Seq(EndpointRecords)
  /\ \A x \in Range(builder.link_states) : x.state \in LinkStateNames
  /\ \A x \in Range(builder.port_states) : x.state \in PortStateNames
  /\ snapshot.ok \in BOOLEAN
  /\ snapshot.ok => SnapshotTyped(snapshot)

\* What a sequence lists is finite and of its type.
LEMMA RangeTyped ==
    ASSUME NEW T, NEW s \in Seq(T)
    PROVE  Range(s) \in SUBSET T /\ IsFiniteSet(Range(s))
    <1>1. DOMAIN s = 1..Len(s) /\ Len(s) \in Nat /\ \A i \in 1..Len(s) : s[i] \in T
        OBVIOUS
    <1>2. Range(s) = {s[i] : i \in 1..Len(s)}
        BY <1>1 DEF Range
    <1>3. IsFiniteSet(1..Len(s))
        BY <1>1, FS_Interval
    <1>4. IsFiniteSet({s[i] : i \in 1..Len(s)})
        BY <1>1, <1>3, ImageFinite
    <1> QED
        BY <1>1, <1>2, <1>4

\* The types at the start.
LEMMA InitRecords ==
    ASSUME Init
    PROVE  RecordsInv
    <1>1. scenario \in DOMAIN Scenarios /\ step = 1 /\ Len(S.calls) \in Nat
        BY ScenarioAssumption DEF Init, S
    <1>2. /\ builder.nodes = << >> /\ builder.edges = << >> /\ builder.endpoints = << >>
          /\ builder.link_states = << >> /\ builder.port_states = << >>
          /\ {"nodes", "edges", "endpoints", "link_states", "port_states"} \subseteq DOMAIN builder
        BY DEF Init, NewBuilder
    <1>3. Range(<< >>) = {}
        BY DEF Range
    <1>4. snapshot.ok = FALSE
        BY DEF Init, NoSnapshot
    <1>5. \A T : << >> \in Seq(T)
        OBVIOUS
    <1>6. /\ builder.nodes \in Seq(NodeRecords) /\ builder.edges \in Seq(EdgeRecords)
          /\ builder.endpoints \in Seq(EndpointRecords)
          /\ Range(builder.link_states) = {} /\ Range(builder.port_states) = {}
        BY <1>2, <1>3, <1>5, Zenon
    <1>7. step \in 1..(Len(S.calls) + 1)
        BY <1>1
    <1> QED
        BY <1>1, <1>2, <1>4, <1>6, <1>7, Zenon DEF RecordsInv

\* Every call of the builder keeps the types.
LEMMA RecordsCall ==
    ASSUME RecordsInv, CallBuilder
    PROVE  RecordsInv'
    <1>1. PICK c \in S.calls[step] : Invoke(c)
        BY DEF CallBuilder
    <1>2. /\ scenario' = scenario /\ step' = step + 1 /\ step <= Len(S.calls)
          /\ snapshot' = snapshot
        BY <1>1 DEF CallBuilder, Invoke, AddNode, AddEdge, AddEndpoint, Accept, SetGenerations,
                    SetView, SetFailureDomains
    <1>3. Len(S.calls) \in Nat /\ step \in 1..Len(S.calls)
        BY <1>2, ScenarioAssumption DEF RecordsInv, S
    <1>4. Call(c)
        BY <1>1, <1>3, ScenarioAssumption DEF RecordsInv, S
    <1> DEFINE D == {"nodes", "edges", "endpoints", "link_states", "port_states"}
               BuilderTyped(b) ==
                 /\ D \subseteq DOMAIN b
                 /\ b.nodes \in Seq(NodeRecords)
                 /\ b.edges \in Seq(EdgeRecords)
                 /\ b.endpoints \in Seq(EndpointRecords)
                 /\ \A x \in Range(b.link_states) : x.state \in LinkStateNames
                 /\ \A x \in Range(b.port_states) : x.state \in PortStateNames
    <1>5. BuilderTyped(builder)
        BY DEF RecordsInv
    <1>6. BuilderTyped(builder')
        <2>1. CASE c.op = "AddNode" /\ AddNode(c.arg)
            <3> DEFINE n == [c.arg EXCEPT !.ports = Range(@)]
            <3>1. c.arg \in NodeArgs
                BY <1>4, <2>1 DEF Call
            <3>2. Range(c.arg.ports) \in SUBSET Nat
                BY <3>1, RangeTyped DEF NodeArgs
            <3>3. n \in NodeRecords
                BY <3>1, <3>2 DEF NodeArgs, NodeRecords
            <3> HIDE DEF n
            <3>4. \/ builder' = [builder EXCEPT !.nodes = Append(@, n)]
                  \/ \E code : builder' = [builder EXCEPT !.diagnostics = Append(@, code)]
                BY <2>1 DEF AddNode, Accept, n
            <3>5. Append(builder.nodes, n) \in Seq(NodeRecords)
                BY <1>5, <3>3
            <3> QED
                BY <1>5, <3>4, <3>5
        <2>2. CASE c.op = "AddEdge" /\ AddEdge(c.arg)
            <3>1. c.arg \in EdgeRecords
                BY <1>4, <2>2 DEF Call
            <3>2. \/ builder' = [builder EXCEPT !.edges = Append(@, c.arg)]
                  \/ \E code : builder' = [builder EXCEPT !.diagnostics = Append(@, code)]
                BY <2>2 DEF AddEdge, Accept
            <3>3. Append(builder.edges, c.arg) \in Seq(EdgeRecords)
                BY <1>5, <3>1
            <3> QED
                BY <1>5, <3>2, <3>3
        <2>3. CASE c.op = "AddEndpoint" /\ AddEndpoint(c.arg)
            <3>1. c.arg \in EndpointRecords
                BY <1>4, <2>3 DEF Call
            <3>2. \/ builder' = [builder EXCEPT !.endpoints = Append(@, c.arg)]
                  \/ \E code : builder' = [builder EXCEPT !.diagnostics = Append(@, code)]
                BY <2>3 DEF AddEndpoint, Accept
            <3>3. Append(builder.endpoints, c.arg) \in Seq(EndpointRecords)
                BY <1>5, <3>1
            <3> QED
                BY <1>5, <3>2, <3>3
        <2>4. CASE c.op = "SetGenerations" /\ SetGenerations(c.arg)
            BY <1>5, <2>4 DEF SetGenerations
        <2>5. CASE c.op = "SetView" /\ SetView(c.field, c.arg)
            <3>1. builder' = [builder EXCEPT ![c.field] = c.arg]
                BY <2>5 DEF SetView
            <3>2. CASE c.field = "link_states" /\ \A x \in Range(c.arg) : x.state \in LinkStateNames
                BY <1>5, <3>1, <3>2
            <3>3. CASE c.field = "port_states" /\ \A x \in Range(c.arg) : x.state \in PortStateNames
                BY <1>5, <3>1, <3>3
            <3>4. CASE c.field = "capabilities"
                BY <1>5, <3>1, <3>4
            <3> QED
                BY <1>4, <2>5, <3>2, <3>3, <3>4 DEF Call
        <2>6. CASE c.op = "SetFailureDomains" /\ SetFailureDomains(c.arg, c.complete)
            BY <1>5, <2>6 DEF SetFailureDomains
        <2>7. CASE UNCHANGED <<builder, snapshot>>
            BY <1>5, <2>7
        <2> QED
            BY <1>1, <2>1, <2>2, <2>3, <2>4, <2>5, <2>6, <2>7 DEF Invoke
    <1>7. step' \in 1..(Len(S.calls) + 1) /\ S' = S
        BY <1>2, <1>3 DEF S
    <1> QED
        BY <1>2, <1>6, <1>7 DEF RecordsInv

\* A lookup answers with a state that some record has, or with UNKNOWN.
LEMMA PublishedIsTyped ==
    ASSUME RecordsInv,
           NEW links \in Views({<<x.link, x.state>> : x \in Range(builder.link_states)}),
           NEW ports \in Views({<<x.port, x.state>> : x \in Range(builder.port_states)}),
           NEW caps, NEW classes
    PROVE  SnapshotTyped(Published(builder, links, ports, caps, classes))
    <1> DEFINE s == Published(builder, links, ports, caps, classes)
    <1>1. /\ s.nodes = Range(builder.nodes) /\ s.edges = Range(builder.edges)
          /\ s.endpoints = Range(builder.endpoints)
          /\ s.link_states = links /\ s.port_states = ports
        BY DEF Published
    <1> HIDE DEF s
    <1>2. /\ s.nodes \in SUBSET NodeRecords /\ IsFiniteSet(s.nodes)
          /\ s.edges \in SUBSET EdgeRecords /\ IsFiniteSet(s.edges)
          /\ s.endpoints \in SUBSET EndpointRecords
        BY <1>1, RangeTyped DEF RecordsInv
    <1>3. \A id : LinkStateOf(s, id) \in LinkStateNames
        <2>1. \A k \in DOMAIN links :
                \E x \in Range(builder.link_states) : <<k, links[k]>> = <<x.link, x.state>>
            BY DEF Views
        <2>2. \A k \in DOMAIN links : links[k] \in LinkStateNames
            BY <2>1 DEF RecordsInv
        <2>3. "UNKNOWN" \in LinkStateNames
            BY DEF LinkStateNames
        <2> QED
            BY <1>1, <2>2, <2>3, Zenon DEF LinkStateOf
    <1>4. \A id : PortStateOf(s, id) \in PortStateNames
        <2>1. \A k \in DOMAIN ports :
                \E x \in Range(builder.port_states) : <<k, ports[k]>> = <<x.port, x.state>>
            BY DEF Views
        <2>2. \A k \in DOMAIN ports : ports[k] \in PortStateNames
            BY <2>1 DEF RecordsInv
        <2>3. "UNKNOWN" \in PortStateNames
            BY DEF PortStateNames
        <2> QED
            BY <1>1, <2>2, <2>3, Zenon DEF PortStateOf
    <1> QED
        BY <1>2, <1>3, <1>4, Zenon DEF SnapshotTyped, s

\* So does Build.
LEMMA RecordsBuild ==
    ASSUME RecordsInv, CallBuild
    PROVE  RecordsInv'
    <1>1. scenario' = scenario /\ step' = step /\ S' = S
        BY DEF CallBuild, S
    <1>2. CASE BuildFailure(builder) # OK
        <2>1. builder' = builder /\ snapshot'.ok = FALSE
            BY <1>2 DEF CallBuild, Build
        <2> QED
            BY <1>1, <2>1 DEF RecordsInv
    <1>3. CASE BuildFailure(builder) = OK
        <2>1. builder' = Emptied(builder)
            BY <1>3 DEF CallBuild, Build
        <2>2. \/ snapshot'.ok = FALSE
              \/ snapshot'.ok = TRUE /\ SnapshotTyped(snapshot')
            <3>1. CASE EncodingOverflows(builder)
                BY <1>3, <3>1 DEF CallBuild, Build
            <3>2. CASE ~EncodingOverflows(builder)
                <4>1. \E links \in Views({<<x.link, x.state>> : x \in Range(builder.link_states)}),
                         ports \in Views({<<x.port, x.state>> : x \in Range(builder.port_states)}) :
                        \E caps, classes :
                          snapshot' = Published(builder, links, ports, caps, classes)
                    BY <1>3, <3>2 DEF CallBuild, Build
                <4>2. SnapshotTyped(snapshot')
                    BY <4>1, PublishedIsTyped
                <4>3. snapshot'.ok = TRUE
                    BY <4>1 DEF Published
                <4> QED
                    BY <4>2, <4>3
            <3> QED
                BY <3>1, <3>2
        <2>3. /\ builder'.nodes = << >> /\ builder'.edges = << >> /\ builder'.endpoints = << >>
              /\ builder'.link_states = << >> /\ builder'.port_states = << >>
              /\ {"nodes", "edges", "endpoints", "link_states", "port_states"}
                   \subseteq DOMAIN builder'
            BY <2>1 DEF NewBuilder, Emptied
        <2>4. Range(<< >>) = {} /\ \A T : << >> \in Seq(T)
            BY DEF Range
        <2>5. /\ builder'.nodes \in Seq(NodeRecords) /\ builder'.edges \in Seq(EdgeRecords)
              /\ builder'.endpoints \in Seq(EndpointRecords)
              /\ Range(builder'.link_states) = {} /\ Range(builder'.port_states) = {}
            BY <2>3, <2>4, Zenon
        <2> QED
            BY <1>1, <2>2, <2>3, <2>5 DEF RecordsInv
    <1> QED
        BY <1>2, <1>3

\* Every step keeps the types.
LEMMA RecordsStep ==
    ASSUME RecordsInv, [Next]_vars
    PROVE  RecordsInv'
    <1>1. CASE CallBuilder
        BY <1>1, RecordsCall
    <1>2. CASE CallBuild
        BY <1>2, RecordsBuild
    <1>3. CASE UNCHANGED <<builder, snapshot, scenario, step>>
        BY <1>3 DEF RecordsInv, S
    <1>4. (\E r \in S.requests : Plan(r)) \/ Enumerate \/ Conclude \/ Done \/ UNCHANGED vars
            => UNCHANGED <<builder, snapshot, scenario, step>>
        BY DEF Plan, Enumerate, Conclude, Done, vars
    <1> QED
        BY <1>1, <1>2, <1>3, <1>4 DEF Next

-----------------------------------------------------------------------------
(* The filter of BuildPlanningView against the reference.                  *)

\* The scan over a vector: 0 when no element passes the test, else the index of
\* one that does.  The test is given by the set of the indices that pass it.
LEMMA ScanFinds ==
    ASSUME NEW n \in Nat, NEW I \in SUBSET (1..n)
    PROVE  /\ I = {} <=> (IF I # {} THEN Min(I) ELSE 0) = 0
           /\ I # {} => (IF I # {} THEN Min(I) ELSE 0) \in I
    <1>1. CASE I = {}
        BY <1>1
    <1>2. CASE I # {}
        <2>1. Min(I) \in I
            BY <1>2, MinIsLeast
        <2>2. Min(I) # 0
            BY <2>1
        <2> QED
            BY <1>2, <2>1, <2>2
    <1> QED
        BY <1>1, <1>2

\* A requirement is met exactly when its capability is proven.
LEMMA CapabilityExact ==
    ASSUME NEW s, NEW subject, NEW q
    PROVE  CapabilitySatisfied(s, subject, q) = OK <=> Proven(s, subject, q)
    BY DEF CapabilitySatisfied, Proven, OK

\* The failure domain check of a subject is exact.
LEMMA DomainExact ==
    ASSUME NEW s, NEW c, NEW subject
    PROVE  FailureDomainCompliant(s, c, subject) = OK <=> Compliant(s, c, subject)
    <1> DEFINE ids     == Range(c.forbidden_failure_domains)
               classes == Range(c.forbidden_failure_domain_classes)
               m       == MembershipOf(s, subject)
               bad     == {d \in m.domains : d \in ids \/ s.classes[d] \in classes}
    <1>1. ~m.known => m.domains = {}
        BY DEF MembershipOf
    <1> HIDE DEF m, ids, classes
    <1>2. FailureDomainCompliant(s, c, subject) =
            IF ~m.known
            THEN IF c.fail_closed_on_unknown_domains /\ ids \cup classes # {}
                 THEN "FAILURE_DOMAIN_UNKNOWN" ELSE OK
            ELSE IF bad = {} THEN OK
            ELSE IF Min(bad) \in ids THEN "FAILURE_DOMAIN_FORBIDDEN"
            ELSE "FAILURE_DOMAIN_CLASS_FORBIDDEN"
        BY DEF FailureDomainCompliant, m, ids, classes
    <1>3. Compliant(s, c, subject) <=>
            /\ \A d \in m.domains : d \notin ids /\ s.classes[d] \notin classes
            /\ m.known \/ ids \cup classes = {} \/ ~c.fail_closed_on_unknown_domains
        BY DEF Compliant, m, ids, classes
    <1>4. bad = {} <=> \A d \in m.domains : d \notin ids /\ s.classes[d] \notin classes
        OBVIOUS
    <1> HIDE DEF bad
    <1>5. CASE m.known
        BY <1>2, <1>3, <1>4, <1>5 DEF OK
    <1>6. CASE ~m.known
        BY <1>1, <1>2, <1>3, <1>6 DEF OK
    <1> QED
        BY <1>5, <1>6

\* The scan of the requirements is exact.
LEMMA CapabilityFailureExact ==
    ASSUME NEW s, NEW c, NEW scope, NEW subject, NEW n \in Nat,
           Len(c.required_capabilities) = n, DOMAIN c.required_capabilities = 1..n
    PROVE  CapabilityFailure(s, c, scope, subject) = OK <=>
             \A q \in Range(c.required_capabilities) :
                q.scope = scope => Proven(s, subject, q)
    <1> DEFINE qs == c.required_capabilities
               I == {i \in 1..n : /\ qs[i].scope = scope
                                  /\ CapabilitySatisfied(s, subject, qs[i]) # OK}
               j == IF I # {} THEN Min(I) ELSE 0
    <1>1. CapabilityFailure(s, c, scope, subject) =
            IF j = 0 THEN OK ELSE CapabilitySatisfied(s, subject, qs[j])
        BY DEF CapabilityFailure, SelectInSeq
    <1>2. (I = {} <=> j = 0) /\ (I # {} => j \in I)
        BY ScanFinds
    <1>3. I = {} <=> \A i \in 1..n : qs[i].scope = scope => Proven(s, subject, qs[i])
        BY CapabilityExact
    <1>4. (\A i \in 1..n : qs[i].scope = scope => Proven(s, subject, qs[i]))
            <=> \A q \in Range(qs) : q.scope = scope => Proven(s, subject, q)
        BY DEF Range
    <1>5. j \in I => CapabilitySatisfied(s, subject, qs[j]) # OK
        OBVIOUS
    <1> HIDE DEF I, j
    <1> QED
        BY <1>1, <1>2, <1>3, <1>4, <1>5

\* A node passes the filter exactly when it is usable.
LEMMA NodeExact ==
    ASSUME NEW s, NEW r, NEW id, NEW n \in Nat,
           Len(r.constraints.required_capabilities) = n,
           DOMAIN r.constraints.required_capabilities = 1..n
    PROVE  EvaluateNode(s, r.constraints, id) = OK <=> UsableNode(s, r, id)
    <1> DEFINE c == r.constraints
               capability == CapabilityFailure(s, c, "EVERY_NODE", ForNode(id))
               domain     == FailureDomainCompliant(s, c, ForNode(id))
               forbidden  == id \in Range(c.forbidden_nodes)
               checks == << <<forbidden, "FORBIDDEN_NODE">>,
                            <<capability # OK, capability>>,
                            <<domain # OK, domain>> >>
    <1>1. EvaluateNode(s, c, id) = FirstFailure(checks)
        BY DEF EvaluateNode
    <1>2. UsableNode(s, r, id) <=> ~forbidden /\ domain = OK /\ capability = OK
        BY DomainExact, CapabilityFailureExact DEF UsableNode
    <1> HIDE DEF forbidden, capability, domain
    <1>3. /\ Len(checks) = 3
          /\ checks[1][1] = forbidden /\ checks[1][2] = "FORBIDDEN_NODE"
          /\ checks[2][1] = (capability # OK) /\ checks[2][2] = capability
          /\ checks[3][1] = (domain # OK) /\ checks[3][2] = domain
        OBVIOUS
    <1>4. "FORBIDDEN_NODE" # OK
        BY DEF OK
    <1> HIDE DEF checks
    <1>5. /\ checks[1][1] => checks[1][2] # OK
          /\ checks[2][1] => checks[2][2] # OK
          /\ checks[3][1] => checks[3][2] # OK
        BY <1>3, <1>4, Zenon
    <1>6. \A i \in 1..3 : checks[i][1] => checks[i][2] # OK
        <2>1. \A i \in 1..3 : i = 1 \/ i = 2 \/ i = 3
            OBVIOUS
        <2> QED
            BY <1>5, <2>1, Zenon
    <1>7. FirstFailure(checks) = OK => ~checks[1][1] /\ ~checks[2][1] /\ ~checks[3][1]
        <2>1. ASSUME FirstFailure(checks) = OK
              PROVE  \A i \in 1..3 : ~checks[i][1]
            BY <1>3, <1>6, <2>1, NoFailure
        <2> QED
            BY <2>1
    <1>8. ~checks[1][1] /\ ~checks[2][1] /\ ~checks[3][1] => FirstFailure(checks) = OK
        <2>1. ASSUME \A i \in 1..3 : ~checks[i][1]
              PROVE  FirstFailure(checks) = OK
            BY <1>3, <2>1 DEF FirstFailure, SelectInSeq
        <2>2. \A i \in 1..3 : i = 1 \/ i = 2 \/ i = 3
            OBVIOUS
        <2> QED
            BY <2>1, <2>2, Zenon
    <1>9. (~checks[1][1] /\ ~checks[2][1] /\ ~checks[3][1]) <=> UsableNode(s, r, id)
        BY <1>2, <1>3, Zenon
    <1> QED
        BY <1>1, <1>7, <1>8, <1>9, Zenon

\* A link state passes the filter exactly when the policy allows it,
LEMMA LinkStateExact ==
    ASSUME NEW r, NEW state \in LinkStateNames
    PROVE  LinkStateFailure(r, state) = OK <=> state \in UsableLinkStates(r)
    <1>1. CASE state \in {"UP", "DOWN", "FAULTED", "RETIRED"}
        BY <1>1 DEF LinkStateFailure, UsableLinkStates, OK
    <1>2. CASE state = "DEGRADED"
        BY <1>2 DEF LinkStateFailure, UsableLinkStates, OK
    <1>3. CASE state = "REVALIDATION_REQUIRED"
        BY <1>3 DEF LinkStateFailure, UsableLinkStates, OK
    <1>4. CASE state = "UNKNOWN"
        BY <1>4 DEF LinkStateFailure, UsableLinkStates, ProofRequired, Provisional, OK
    <1> QED
        BY <1>1, <1>2, <1>3, <1>4 DEF LinkStateNames

\* and a port state.
LEMMA PortStateExact ==
    ASSUME NEW r, NEW state \in PortStateNames
    PROVE  PortStateFailure(r, state) = OK <=> state \in UsablePortStates(r)
    <1>1. CASE state \in {"UP", "ADMIN_DISABLED", "RETIRED", "SUPERSEDED"}
        BY <1>1 DEF PortStateFailure, UsablePortStates, OK
    <1>2. CASE state = "DRAINING"
        BY <1>2 DEF PortStateFailure, UsablePortStates, OK
    <1>3. CASE state = "MAINTENANCE"
        BY <1>3 DEF PortStateFailure, UsablePortStates, OK
    <1>4. CASE state = "REVALIDATION_REQUIRED"
        BY <1>4 DEF PortStateFailure, UsablePortStates, OK
    <1>5. CASE state = "UNKNOWN"
        BY <1>5 DEF PortStateFailure, UsablePortStates, ProofRequired, Provisional, OK
    <1> QED
        BY <1>1, <1>2, <1>3, <1>4, <1>5 DEF PortStateNames

\* The failure domain checks of a link and its ports are exact.
LEMMA EdgeDomainExact ==
    ASSUME NEW s, NEW c, NEW e
    PROVE  EdgeDomainFailure(s, c, e) = OK <=>
             \A x \in {ForLink(e.id)} \cup {ForPort(p) : p \in {e.from_port, e.to_port}} :
                Compliant(s, c, x)
    <1> DEFINE subjects == <<ForLink(e.id), ForPort(e.from_port), ForPort(e.to_port)>>
               I == {i \in 1..3 : FailureDomainCompliant(s, c, subjects[i]) # OK}
               j == IF I # {} THEN Min(I) ELSE 0
    <1>0. Len(subjects) = 3
        OBVIOUS
    <1>1. EdgeDomainFailure(s, c, e) =
            IF j = 0 THEN OK ELSE FailureDomainCompliant(s, c, subjects[j])
        BY <1>0 DEF EdgeDomainFailure, SelectInSeq
    <1>2. (I = {} <=> j = 0) /\ (I # {} => j \in I)
        BY ScanFinds
    <1>3. j \in I => FailureDomainCompliant(s, c, subjects[j]) # OK
        OBVIOUS
    <1>4. I = {} <=> \A i \in 1..3 : Compliant(s, c, subjects[i])
        BY DomainExact
    <1>5. (\A i \in 1..3 : Compliant(s, c, subjects[i])) <=>
            /\ Compliant(s, c, subjects[1])
            /\ Compliant(s, c, subjects[2])
            /\ Compliant(s, c, subjects[3])
        <2> HIDE DEF subjects
        <2>1. \A i \in 1..3 : i = 1 \/ i = 2 \/ i = 3
            OBVIOUS
        <2>2. 1 \in 1..3 /\ 2 \in 1..3 /\ 3 \in 1..3
            OBVIOUS
        <2> QED
            BY <2>1, <2>2, Zenon
    <1>6. subjects[1] = ForLink(e.id) /\ subjects[2] = ForPort(e.from_port)
            /\ subjects[3] = ForPort(e.to_port)
        OBVIOUS
    <1> HIDE DEF I, j, subjects
    <1>7. (\A x \in {ForLink(e.id)} \cup {ForPort(p) : p \in {e.from_port, e.to_port}} :
             Compliant(s, c, x)) <=> /\ Compliant(s, c, subjects[1])
                                     /\ Compliant(s, c, subjects[2])
                                     /\ Compliant(s, c, subjects[3])
        BY <1>6, Zenon
    <1>8. EdgeDomainFailure(s, c, e) = OK <=> I = {}
        BY <1>1, <1>2, <1>3
    <1> QED
        BY <1>4, <1>5, <1>7, <1>8, Zenon

\* The subjects of a link that a requirement of the request is about.
SubjectsOf(e, q) ==
  CASE q.scope = "EVERY_LINK" -> <<ForLink(e.id)>>
    [] q.scope = "EVERY_PORT" -> <<ForPort(e.from_port), ForPort(e.to_port)>>
    [] OTHER -> << >>

\* The subjects that a requirement is about.
LEMMA SubjectsFacts ==
    ASSUME NEW e, NEW q
    PROVE  /\ \E k \in Nat : Len(SubjectsOf(e, q)) = k /\ DOMAIN SubjectsOf(e, q) = 1..k
           /\ q.scope = "EVERY_LINK" => Range(SubjectsOf(e, q)) = {ForLink(e.id)}
           /\ q.scope = "EVERY_PORT" =>
                Range(SubjectsOf(e, q)) = {ForPort(p) : p \in {e.from_port, e.to_port}}
           /\ q.scope \notin {"EVERY_LINK", "EVERY_PORT"} => Range(SubjectsOf(e, q)) = {}
    <1>1. CASE q.scope = "EVERY_LINK"
        <2>1. SubjectsOf(e, q) = <<ForLink(e.id)>>
            BY <1>1 DEF SubjectsOf
        <2>2. Range(<<ForLink(e.id)>>) = {ForLink(e.id)}
            BY DEF Range
        <2>3. Len(<<ForLink(e.id)>>) = 1 /\ DOMAIN <<ForLink(e.id)>> = 1..1
            OBVIOUS
        <2> QED
            BY <1>1, <2>1, <2>2, <2>3
    <1>2. CASE q.scope = "EVERY_PORT"
        <2> DEFINE two == <<ForPort(e.from_port), ForPort(e.to_port)>>
        <2>1. SubjectsOf(e, q) = two
            BY <1>2 DEF SubjectsOf
        <2>2. Range(two) = {ForPort(p) : p \in {e.from_port, e.to_port}}
            <3>1. DOMAIN two = {1, 2} /\ two[1] = ForPort(e.from_port)
                    /\ two[2] = ForPort(e.to_port)
                OBVIOUS
            <3> HIDE DEF two
            <3> QED
                BY <3>1, Zenon DEF Range
        <2>3. Len(two) = 2 /\ DOMAIN two = 1..2
            OBVIOUS
        <2> HIDE DEF two
        <2> QED
            BY <1>2, <2>1, <2>2, <2>3
    <1>3. CASE q.scope \notin {"EVERY_LINK", "EVERY_PORT"}
        <2>1. SubjectsOf(e, q) = << >>
            BY <1>3 DEF SubjectsOf
        <2> QED
            BY <1>3, <2>1 DEF Range
    <1> QED
        BY <1>1, <1>2, <1>3

\* The capability checks of a link and its ports are exact.
LEMMA EdgeCapabilityExact ==
    ASSUME NEW s, NEW c, NEW e, NEW n \in Nat,
           Len(c.required_capabilities) = n, DOMAIN c.required_capabilities = 1..n
    PROVE  EdgeCapabilityFailure(s, c, e) = OK <=>
             \A q \in Range(c.required_capabilities) :
               /\ q.scope = "EVERY_LINK" => Proven(s, ForLink(e.id), q)
               /\ q.scope = "EVERY_PORT" =>
                    \A p \in {e.from_port, e.to_port} : Proven(s, ForPort(p), q)
    <1> DEFINE qs == c.required_capabilities
               Fails(q) == \E x \in Range(SubjectsOf(e, q)) : CapabilitySatisfied(s, x, q) # OK
               I == {i \in 1..n : Fails(qs[i])}
               j == IF I # {} THEN Min(I) ELSE 0
               q == qs[j]
               xs == SubjectsOf(e, q)
               J == {i \in 1..Len(xs) : CapabilitySatisfied(s, xs[i], q) # OK}
               k == IF J # {} THEN Min(J) ELSE 0
    <1>1. EdgeCapabilityFailure(s, c, e) =
            IF j = 0 THEN OK ELSE CapabilitySatisfied(s, xs[k], q)
        BY DEF EdgeCapabilityFailure, SelectInSeq, SubjectsOf
    <1>2. (I = {} <=> j = 0) /\ (I # {} => j \in I)
        BY ScanFinds
    <1>3. j \in I => CapabilitySatisfied(s, xs[k], q) # OK
        <2> SUFFICES ASSUME j \in I
                     PROVE  CapabilitySatisfied(s, xs[k], q) # OK
            OBVIOUS
        <2>1. Fails(q)
            OBVIOUS
        <2> HIDE DEF q, j, I
        <2>2. PICK m \in Nat : Len(xs) = m /\ DOMAIN xs = 1..m
            BY SubjectsFacts
        <2>3. J # {}
            BY <2>1, <2>2 DEF Range
        <2>4. k \in J
            <3>1. J \in SUBSET (1..m)
                BY <2>2
            <3> HIDE DEF J
            <3> QED
                BY <2>3, <3>1, ScanFinds
        <2> QED
            BY <2>4
    <1>4. \A x : Fails(x) <=>
             ~(/\ x.scope = "EVERY_LINK" => Proven(s, ForLink(e.id), x)
               /\ x.scope = "EVERY_PORT" =>
                    \A p \in {e.from_port, e.to_port} : Proven(s, ForPort(p), x))
        <2> SUFFICES ASSUME NEW x
                     PROVE  Fails(x) <=>
                              ~(/\ x.scope = "EVERY_LINK" => Proven(s, ForLink(e.id), x)
                                /\ x.scope = "EVERY_PORT" =>
                                     \A p \in {e.from_port, e.to_port} : Proven(s, ForPort(p), x))
            OBVIOUS
        <2>1. CASE x.scope = "EVERY_LINK"
            BY <2>1, SubjectsFacts, CapabilityExact
        <2>2. CASE x.scope = "EVERY_PORT"
            BY <2>2, SubjectsFacts, CapabilityExact
        <2>3. CASE x.scope \notin {"EVERY_LINK", "EVERY_PORT"}
            BY <2>3, SubjectsFacts
        <2> QED
            BY <2>1, <2>2, <2>3
    <1>5. I = {} <=> \A x \in Range(qs) : ~Fails(x)
        <2> HIDE DEF Fails
        <2> QED
            BY DEF Range
    <1>6. EdgeCapabilityFailure(s, c, e) = OK <=> I = {}
        <2> HIDE DEF I, j, k, xs, q
        <2> QED
            BY <1>1, <1>2, <1>3
    <1> HIDE DEF I, Fails
    <1> QED
        BY <1>4, <1>5, <1>6, Zenon

\* The verdict of the last check, which always holds, is that of the scan exactly
\* when no earlier check holds.
LEMMA LastVerdict ==
    ASSUME NEW n \in Nat, NEW checks, NEW v, Len(checks) = n + 1,
           checks[n + 1][1], checks[n + 1][2] = v,
           \A i \in 1..n : checks[i][2] # v
    PROVE  FirstFailure(checks) = v <=> \A i \in 1..n : ~checks[i][1]
    <1> DEFINE I == {i \in 1..(n + 1) : checks[i][1]}
               j == Min(I)
    <1>1. n + 1 \in I
        OBVIOUS
    <1>2. j \in I /\ \A i \in I : j <= i
        <2>1. I \in SUBSET (1..(n + 1)) /\ I # {} /\ n + 1 \in Nat
            BY <1>1
        <2> HIDE DEF I
        <2> QED
            BY <2>1, MinIsLeast
    <1>3. FirstFailure(checks) = checks[j][2]
        <2>1. FirstFailure(checks) = IF (IF I # {} THEN j ELSE 0) = 0 THEN OK
                                     ELSE checks[IF I # {} THEN j ELSE 0][2]
            BY DEF FirstFailure, SelectInSeq
        <2>2. I # {} /\ j # 0
            BY <1>1, <1>2
        <2> HIDE DEF I, j
        <2> QED
            BY <2>1, <2>2
    <1>4. j \in 1..n \/ j = n + 1
        BY <1>2
    <1>5. CASE j \in 1..n
        <2>1. checks[j][1]
            BY <1>2
        <2> HIDE DEF j
        <2> QED
            BY <1>3, <1>5, <2>1
    <1>6. CASE j = n + 1
        <2>1. \A i \in 1..n : i \notin I
            <3> HIDE DEF j, I
            <3> QED
                BY <1>2, <1>6
        <2>2. \A i \in 1..n : i \in 1..(n + 1)
            OBVIOUS
        <2>3. \A i \in 1..n : ~checks[i][1]
            BY <2>1, <2>2
        <2> HIDE DEF j
        <2> QED
            BY <1>3, <1>6, <2>3
    <1> QED
        BY <1>4, <1>5, <1>6

\* Soundness and completeness of the filter, link by link: with the nodes that
\* EvaluateNode lets in, BuildPlanningView keeps a published link exactly when
\* the reference calls it usable and its cost fits, whatever the order in which
\* the reasons are tried (planning_view.cpp).
THEOREM FilterIsExact ==
    ASSUME NEW s, NEW r, NEW e, NEW n \in Nat,
           Len(r.constraints.required_capabilities) = n,
           DOMAIN r.constraints.required_capabilities = 1..n,
           {e.from, e.to} \subseteq {x.id : x \in s.nodes},
           LinkStateOf(s, e.id) \in LinkStateNames,
           \A p \in {e.from_port, e.to_port} : PortStateOf(s, p) \in PortStateNames
    PROVE  LET eligible == {id \in {x.id : x \in s.nodes} :
                              EvaluateNode(s, r.constraints, id) = OK}
           IN  EdgeVerdict(s, r, eligible, e) = Eligible <=>
                 UsableLink(s, r, e) /\ Entry(s, r, e).traversal # Overflow
    <1> DEFINE c == r.constraints
               eligible == {id \in {x.id : x \in s.nodes} : EvaluateNode(s, c, id) = OK}
               link == LinkStateFailure(r, LinkStateOf(s, e.id))
               from_port == PortStateFailure(r, PortStateOf(s, e.from_port))
               to_port   == PortStateFailure(r, PortStateOf(s, e.to_port))
               capability == EdgeCapabilityFailure(s, c, e)
               domain == EdgeDomainFailure(s, c, e)
               layer == e.layer # c.layer
               banned == e.id \in Range(c.forbidden_links)
               port == {e.from_port, e.to_port} \cap Range(c.forbidden_ports) # {}
               outside == ~({e.from, e.to} \subseteq eligible)
               overflow == Entry(s, r, e).traversal = Overflow
               checks == <<
                 <<layer, <<"aggregate", "LAYER_MISMATCH">> >>,
                 <<banned, <<"explicit", "FORBIDDEN_LINK">> >>,
                 <<port, <<"explicit", "FORBIDDEN_PORT">> >>,
                 <<outside, <<"silent", OK>> >>,
                 <<link # OK, <<"aggregate", link>> >>,
                 <<from_port # OK, <<"aggregate", from_port>> >>,
                 <<to_port # OK, <<"aggregate", to_port>> >>,
                 <<capability # OK, <<"aggregate", capability>> >>,
                 <<domain # OK, <<"aggregate", domain>> >>,
                 <<overflow, <<"aggregate", "COST_OVERFLOW">> >>,
                 <<TRUE, Eligible>> >>
    <1>1. EdgeVerdict(s, r, eligible, e) = FirstFailure(checks)
        BY DEF EdgeVerdict
    <1>2. outside <=> ~(UsableNode(s, r, e.from) /\ UsableNode(s, r, e.to))
        BY NodeExact
    <1>3. link = OK <=> LinkStateOf(s, e.id) \in UsableLinkStates(r)
        BY LinkStateExact
    <1>4. from_port = OK /\ to_port = OK <=>
            \A p \in {e.from_port, e.to_port} : PortStateOf(s, p) \in UsablePortStates(r)
        BY PortStateExact
    <1>5. capability = OK <=>
            \A q \in Range(c.required_capabilities) :
               /\ q.scope = "EVERY_LINK" => Proven(s, ForLink(e.id), q)
               /\ q.scope = "EVERY_PORT" =>
                    \A p \in {e.from_port, e.to_port} : Proven(s, ForPort(p), q)
        BY EdgeCapabilityExact
    <1>6. domain = OK <=>
            \A x \in {ForLink(e.id)} \cup {ForPort(p) : p \in {e.from_port, e.to_port}} :
               Compliant(s, c, x)
        BY EdgeDomainExact
    <1>7. UsableLink(s, r, e) <=>
            /\ ~layer /\ ~banned /\ ~port /\ ~outside
            /\ link = OK /\ from_port = OK /\ to_port = OK /\ capability = OK /\ domain = OK
        <2>1. UsableLink(s, r, e) <=>
                /\ ~layer /\ ~banned /\ ~port
                /\ UsableNode(s, r, e.from) /\ UsableNode(s, r, e.to)
                /\ LinkStateOf(s, e.id) \in UsableLinkStates(r)
                /\ \A p \in {e.from_port, e.to_port} : PortStateOf(s, p) \in UsablePortStates(r)
                /\ \A x \in {ForLink(e.id)} \cup {ForPort(p) : p \in {e.from_port, e.to_port}} :
                     Compliant(s, c, x)
                /\ \A q \in Range(c.required_capabilities) :
                     /\ q.scope = "EVERY_LINK" => Proven(s, ForLink(e.id), q)
                     /\ q.scope = "EVERY_PORT" =>
                          \A p \in {e.from_port, e.to_port} : Proven(s, ForPort(p), q)
            BY Zenon DEF UsableLink
        <2> HIDE DEF layer, banned, port, outside, link, from_port, to_port, capability, domain
        <2> QED
            BY <1>2, <1>3, <1>4, <1>5, <1>6, <2>1, Zenon
    <1> HIDE DEF layer, banned, port, outside, link, from_port, to_port, capability, domain,
                 overflow
    <1>8. /\ Len(checks) = 10 + 1
          /\ checks[1][1] = layer /\ checks[2][1] = banned /\ checks[3][1] = port
          /\ checks[4][1] = outside /\ checks[5][1] = (link # OK)
          /\ checks[6][1] = (from_port # OK) /\ checks[7][1] = (to_port # OK)
          /\ checks[8][1] = (capability # OK) /\ checks[9][1] = (domain # OK)
          /\ checks[10][1] = overflow /\ checks[10 + 1][1] = TRUE
          /\ checks[10 + 1][2] = Eligible
        OBVIOUS
    <1>9. \A i \in 1..10 : checks[i][2] # Eligible
        BY DEF Eligible, OK
    <1> HIDE DEF checks
    <1>10. FirstFailure(checks) = Eligible <=> \A i \in 1..10 : ~checks[i][1]
        <2> DEFINE k == 10
        <2>1. /\ k \in Nat /\ Len(checks) = k + 1
              /\ checks[k + 1][1] /\ checks[k + 1][2] = Eligible
              /\ \A i \in 1..k : checks[i][2] # Eligible
            BY <1>8, <1>9
        <2>2. FirstFailure(checks) = Eligible <=> \A i \in 1..k : ~checks[i][1]
            <3> HIDE DEF k
            <3> QED
                BY <2>1, LastVerdict
        <2> QED
            BY <2>2
    <1>11. (\A i \in 1..10 : ~checks[i][1]) <=>
             /\ ~checks[1][1] /\ ~checks[2][1] /\ ~checks[3][1] /\ ~checks[4][1]
             /\ ~checks[5][1] /\ ~checks[6][1] /\ ~checks[7][1] /\ ~checks[8][1]
             /\ ~checks[9][1] /\ ~checks[10][1]
        <2>1. \A i \in 1..10 : \/ i = 1 \/ i = 2 \/ i = 3 \/ i = 4 \/ i = 5
                               \/ i = 6 \/ i = 7 \/ i = 8 \/ i = 9 \/ i = 10
            OBVIOUS
        <2>2. /\ 1 \in 1..10 /\ 2 \in 1..10 /\ 3 \in 1..10 /\ 4 \in 1..10 /\ 5 \in 1..10
              /\ 6 \in 1..10 /\ 7 \in 1..10 /\ 8 \in 1..10 /\ 9 \in 1..10 /\ 10 \in 1..10
            OBVIOUS
        <2> QED
            BY <2>1, <2>2, Zenon
    <1>12. FirstFailure(checks) = Eligible <=> UsableLink(s, r, e) /\ ~overflow
        BY <1>7, <1>8, <1>10, <1>11, Zenon
    <1> QED
        BY <1>1, <1>12, Zenon DEF overflow

-----------------------------------------------------------------------------
(* A request that is not refused, and its view.                            *)

\* The entry of a published link.
LEMMA EntryIsTyped ==
    ASSUME NEW s, NEW r, Request(r), NEW e \in EdgeRecords
    PROVE  /\ Entry(s, r, e) \in EntryRecords
           /\ Entry(s, r, e).link = e.id
           /\ Entry(s, r, e).from = e.from
           /\ Entry(s, r, e).to = e.to
    <1> DEFINE degraded == LinkStateOf(s, e.id) = "DEGRADED"
               outside  == /\ r.policy.locality_scope # << >>
                           /\ e.to \notin Range(r.policy.locality_scope)
               penalised == IF degraded THEN CheckedAdd(e.static_cost, r.policy.degraded_penalty)
                            ELSE e.static_cost
               traversal == IF outside THEN CheckedAdd(penalised, r.policy.locality_penalty)
                            ELSE penalised
    <1>1. Entry(s, r, e) =
            [from |-> e.from, to |-> e.to, link |-> e.id, static |-> e.static_cost,
             degraded |-> degraded, outside |-> outside, traversal |-> traversal]
        BY DEF Entry
    <1>2. r.policy.degraded_penalty \in Nat /\ r.policy.locality_penalty \in Nat
        BY DEF Request
    <1>3. /\ e.from \in Nat /\ e.to \in Nat /\ e.id \in Nat /\ e.static_cost \in Nat
        BY DEF EdgeRecords
    <1>4. degraded \in BOOLEAN /\ outside \in BOOLEAN
        OBVIOUS
    <1> HIDE DEF degraded, outside
    <1>5. penalised \in Nat
        BY <1>2, <1>3, AddIsNatural
    <1> HIDE DEF penalised
    <1>6. traversal \in Nat
        BY <1>2, <1>5, AddIsNatural
    <1> HIDE DEF traversal
    <1> QED
        BY <1>1, <1>3, <1>4, <1>6 DEF EntryRecords

\* An endpoint that resolves names a published node.
LEMMA EndpointResolves ==
    ASSUME SnapshotCoherent, snapshot.ok, NEW ref, NEW u, NEW w,
           EndpointFailure(snapshot, ref, u, w) = <<OK, OK>>
    PROVE  NodeOf(snapshot, ref) \in {n.id : n \in snapshot.nodes}
    <1> DEFINE record == FindEndpoint(snapshot, ref.id)
               p == CHOOSE p \in record : TRUE
    <1>1. record # {}
        BY DEF EndpointFailure, OK
    <1>2. p \in record
        <2> HIDE DEF record
        <2> QED
            BY <1>1
    <1>3. p \in snapshot.endpoints
        BY <1>2 DEF FindEndpoint
    <1>4. NodeOf(snapshot, ref) = p.node
        BY DEF NodeOf
    <1> HIDE DEF p
    <1>5. \E n \in snapshot.nodes : n.id = p.node
        BY <1>3 DEF SnapshotCoherent
    <1> QED
        BY <1>4, <1>5

\* A request that is not refused names two published nodes.
LEMMA NotRefused ==
    ASSUME SnapshotCoherent, NEW r, NEW limits, Refusal(r, limits) = <<OK, OK>>
    PROVE  /\ snapshot.ok
           /\ NodeOf(snapshot, r.source) \in {n.id : n \in snapshot.nodes}
           /\ NodeOf(snapshot, r.destination) \in {n.id : n \in snapshot.nodes}
    <1> DEFINE invalid == ValidateRequest(r, limits)
               source == EndpointFailure(snapshot, r.source, "SOURCE_UNKNOWN", "SOURCE_STALE")
               target == EndpointFailure(snapshot, r.destination,
                                         "DESTINATION_UNKNOWN", "DESTINATION_STALE")
    <1>1. snapshot.ok /\ source = <<OK, OK>> /\ target = <<OK, OK>>
        <2> HIDE DEF invalid, source, target
        <2>1. Refusal(r, limits) =
                 IF invalid # OK THEN <<StatusForValidationCode(invalid), invalid>>
                 ELSE IF r.lacks_scope THEN <<"UNAUTHORIZED", "AUTHORITY_SCOPE_INSUFFICIENT">>
                 ELSE IF Expects(r.coordinator_epoch, RuntimeEpoch)
                 THEN <<"EPOCH_STALE", "EPOCH_MISMATCH">>
                 ELSE IF ~snapshot.ok THEN <<"REVALIDATION_REQUIRED", "SNAPSHOT_NOT_AVAILABLE">>
                 ELSE IF Expects(r.expected_epoch, snapshot.generations.epoch)
                 THEN <<"EPOCH_STALE", "EPOCH_MISMATCH">>
                 ELSE IF Expects(r.expected_topology, snapshot.generations.topology)
                 THEN <<"TOPOLOGY_STALE", "TOPOLOGY_GENERATION_MISMATCH">>
                 ELSE IF Expects(r.expected_snapshot, SnapshotIdentity)
                 THEN <<"REVALIDATION_REQUIRED", "STALE_EVIDENCE">>
                 ELSE IF source # <<OK, OK>> THEN source
                 ELSE target
            BY DEF Refusal, invalid, source, target
        <2> QED
            BY <2>1 DEF OK
    <1> QED
        BY <1>1, EndpointResolves

\* A link that the filter keeps is usable, and both its ends are in the view.
LEMMA EligibleIsUsable ==
    ASSUME NEW s, SnapshotTyped(s), NEW r, Request(r), NEW e \in s.edges,
           e.from \in {x.id : x \in s.nodes}, e.to \in {x.id : x \in s.nodes},
           NEW eligible,
           eligible = {id \in {x.id : x \in s.nodes} : EvaluateNode(s, r.constraints, id) = OK},
           EdgeVerdict(s, r, eligible, e) = Eligible
    PROVE  UsableLink(s, r, e) /\ e.from \in eligible /\ e.to \in eligible
    <1> DEFINE q == r.constraints.required_capabilities
               n == Len(q)
    <1>1. q \in Seq(Range(q))
        BY DEF Request
    <1>2. n \in Nat /\ DOMAIN q = 1..n /\ Len(q) = n
        <2> HIDE DEF q
        <2> QED
            BY <1>1
    <1>3. /\ LinkStateOf(s, e.id) \in LinkStateNames
          /\ \A p \in {e.from_port, e.to_port} : PortStateOf(s, p) \in PortStateNames
        BY DEF SnapshotTyped
    <1>4. {e.from, e.to} \subseteq {x.id : x \in s.nodes}
        OBVIOUS
    <1> HIDE DEF n
    <1>5. EdgeVerdict(s, r, eligible, e) = Eligible <=>
                 UsableLink(s, r, e) /\ Entry(s, r, e).traversal # Overflow
        BY <1>2, <1>3, <1>4, FilterIsExact
    <1>6. UsableLink(s, r, e)
        BY <1>5
    <1>7. UsableNode(s, r, e.from) /\ UsableNode(s, r, e.to)
        BY <1>6 DEF UsableLink
    <1>8. EvaluateNode(s, r.constraints, e.from) = OK /\ EvaluateNode(s, r.constraints, e.to) = OK
        BY <1>2, <1>7, NodeExact
    <1> QED
        BY <1>6, <1>8

\* The published nodes, by identifier.
NodeIds(s) == {n.id : n \in s.nodes}

\* The nodes of the view: the published nodes that pass the filter.
EligibleNodes(s, r) == {id \in NodeIds(s) : EvaluateNode(s, r.constraints, id) = OK}

\* The adjacency entries of the view: one per eligible link.
Entries(s, r, v) ==
  {Entry(s, r, e) : e \in {e \in s.edges : EdgeVerdict(s, r, v.nodes, e) = Eligible}}

\* A view that is not fatal has the shape the search relies on, and its entries
\* are those of the eligible links.
LEMMA ViewIsShaped ==
    ASSUME NEW s, SnapshotTyped(s), \A x, y \in s.edges : x.id = y.id => x = y,
           \A e \in s.edges : {e.from, e.to} \subseteq NodeIds(s),
           NEW r, Request(r), NEW limits, limits.max_nodes \in 0..InfiniteHops,
           NEW src \in NodeIds(s), NEW dst \in NodeIds(s),
           NEW v, v = BuildPlanningView(s, r, limits, src, dst), v.fatal = OK
    PROVE  /\ v.nodes = EligibleNodes(s, r)
           /\ src \in v.nodes /\ dst \in v.nodes
           /\ v.provisional = Provisional(r) /\ v.limits = limits
           /\ ViewShape(v, Entries(s, r, v))
    <1> USE DEF NodeIds, EligibleNodes, Entries
    <1> DEFINE c == r.constraints
               ids == {n.id : n \in s.nodes}
               verdict  == [id \in ids |-> EvaluateNode(s, c, id)]
               eligible == {id \in DOMAIN verdict : verdict[id] = OK}
               edges    == [e \in s.edges |-> EdgeVerdict(s, r, eligible, e)]
               good     == {e \in s.edges : edges[e] = Eligible}
               entries  == {Entry(s, r, e) : e \in good}
               tooLarge == Cardinality(eligible) > limits.max_nodes
               ends     == EndCapabilityFailure(s, c, src, dst)
               checks   == << <<tooLarge, "GRAPH_TOO_LARGE">>,
                              <<src \notin eligible, verdict[src]>>,
                              <<dst \notin eligible, verdict[dst]>>,
                              <<ends # OK, ends>> >>
               nodeLog  == FoldLeft(LAMBDA log, n : IF verdict[n.id] = OK THEN log
                                                    ELSE Explicit(log, verdict[n.id]),
                                    NewLog(limits), ById(s.nodes))
               log == FoldLeft(LAMBDA log, e : Log(log, edges[e]), nodeLog, ById(s.edges))
               adjacency == [n \in eligible |-> SortedAdjacency(entries, n)]
               full == [fatal |-> OK, nodes |-> eligible, hop_cost |-> r.policy.hop_cost,
                        degraded_penalty |-> r.policy.degraded_penalty,
                        locality_penalty |-> r.policy.locality_penalty,
                        limits |-> limits, provisional |-> Provisional(r),
                        adjacency |-> adjacency, log |-> log]
    <1>1. v = IF FirstFailure(checks) # OK THEN [fatal |-> FirstFailure(checks)] ELSE full
        BY DEF BuildPlanningView
    <1>2. FirstFailure(checks) = OK /\ v = full
        <2> HIDE DEF checks, full
        <2> QED
            BY <1>1
    <1>3. /\ v.nodes = eligible /\ v.hop_cost = r.policy.hop_cost
          /\ v.degraded_penalty = r.policy.degraded_penalty
          /\ v.locality_penalty = r.policy.locality_penalty
          /\ v.limits = limits /\ v.provisional = Provisional(r) /\ v.adjacency = adjacency
        <2> HIDE DEF eligible, adjacency, log
        <2> QED
            BY <1>2
    <1>4. ~tooLarge /\ src \in eligible /\ dst \in eligible
        <2>1. src \in DOMAIN verdict /\ dst \in DOMAIN verdict
            OBVIOUS
        <2>2. src \notin eligible => verdict[src] # OK
            BY <2>1
        <2>3. dst \notin eligible => verdict[dst] # OK
            BY <2>1
        <2> HIDE DEF verdict, eligible, tooLarge, ends
        <2>4. /\ Len(checks) = 4
              /\ checks[1][1] = tooLarge /\ checks[1][2] = "GRAPH_TOO_LARGE"
              /\ checks[2][1] = (src \notin eligible) /\ checks[2][2] = verdict[src]
              /\ checks[3][1] = (dst \notin eligible) /\ checks[3][2] = verdict[dst]
              /\ checks[4][1] = (ends # OK) /\ checks[4][2] = ends
            OBVIOUS
        <2> HIDE DEF checks
        <2>5. \A i \in 1..4 : i = 1 \/ i = 2 \/ i = 3 \/ i = 4
            OBVIOUS
        <2>6. "GRAPH_TOO_LARGE" # OK
            BY DEF OK
        <2>7. \A i \in 1..4 : checks[i][1] => checks[i][2] # OK
            BY <2>2, <2>3, <2>4, <2>5, <2>6, Zenon
        <2> DEFINE k == 4
        <2>8. k \in Nat /\ Len(checks) = k /\ 1 \in 1..k /\ 2 \in 1..k /\ 3 \in 1..k
              /\ \A i \in 1..k : checks[i][1] => checks[i][2] # OK
            BY <2>4, <2>7
        <2> HIDE DEF k
        <2>9. \A i \in 1..k : ~checks[i][1]
            BY <1>2, <2>8, NoFailure
        <2> QED
            BY <2>4, <2>8, <2>9, Zenon
    <1>5. s.nodes \in SUBSET NodeRecords /\ IsFiniteSet(s.nodes)
          /\ s.edges \in SUBSET EdgeRecords /\ IsFiniteSet(s.edges)
        BY DEF SnapshotTyped
    <1>6. ids \in SUBSET Nat /\ IsFiniteSet(ids)
        <2> DEFINE f == [n \in s.nodes |-> n.id]
        <2>1. ids = {f[n] : n \in s.nodes} /\ s.nodes \subseteq DOMAIN f
            OBVIOUS
        <2>2. IsFiniteSet({f[n] : n \in s.nodes})
            <3> HIDE DEF f
            <3> QED
                BY <1>5, <2>1, ImageFinite
        <2>3. ids \in SUBSET Nat
            BY <1>5 DEF NodeRecords
        <2> HIDE DEF f, ids
        <2> QED
            BY <2>1, <2>2, <2>3
    <1>7. eligible \in SUBSET Nat /\ IsFiniteSet(eligible) /\ eligible \subseteq ids
        <2>1. eligible \subseteq ids
            OBVIOUS
        <2> HIDE DEF eligible, ids
        <2> QED
            BY <1>6, <2>1, FS_Subset
    <1>8. Cardinality(eligible) <= InfiniteHops
        <2>1. Cardinality(eligible) \in Nat
            BY <1>7, FS_CardinalityType
        <2> QED
            BY <1>4, <2>1, InfiniteHopsAssumption
    <1>9. good \in SUBSET s.edges /\ IsFiniteSet(good)
        <2>1. good \in SUBSET s.edges
            OBVIOUS
        <2> HIDE DEF good
        <2> QED
            BY <1>5, <2>1, FS_Subset
    <1>10. \A e \in good : e \in EdgeRecords /\ e.to \in eligible
        <2> SUFFICES ASSUME NEW e \in good
                     PROVE  e \in EdgeRecords /\ e.to \in eligible
            OBVIOUS
        <2>1. e \in EdgeRecords /\ EdgeVerdict(s, r, eligible, e) = Eligible
            BY <1>5
        <2>2. e \in s.edges /\ e.from \in ids /\ e.to \in ids
            OBVIOUS
        <2>3. eligible = {id \in ids : EvaluateNode(s, r.constraints, id) = OK}
            OBVIOUS
        <2> HIDE DEF eligible, good
        <2> QED
            BY <2>1, <2>2, <2>3, EligibleIsUsable
    <1>11. entries \in SUBSET EntryRecords
        <2>1. \A e \in good : Entry(s, r, e) \in EntryRecords
            <3> HIDE DEF good, eligible
            <3> QED
                BY <1>10, EntryIsTyped
        <2> HIDE DEF good
        <2> QED
            BY <2>1, Zenon
    <1>12. IsFiniteSet(entries)
        <2> DEFINE f == [e \in good |-> Entry(s, r, e)]
        <2>1. entries = {f[e] : e \in good} /\ good \subseteq DOMAIN f
            <3> HIDE DEF good
            <3> QED
                OBVIOUS
        <2> HIDE DEF f, entries, good
        <2>2. IsFiniteSet({f[e] : e \in good})
            BY <1>9, <2>1, ImageFinite
        <2> QED
            BY <2>1, <2>2
    <1>13. \A a \in entries : a.to \in eligible
        <2> HIDE DEF good, eligible
        <2>1. \A e \in good : Entry(s, r, e).to \in eligible
            BY <1>10, EntryIsTyped
        <2> QED
            BY <2>1, Zenon
    <1>14. \A a, b \in entries : a.link = b.link => a = b
        <2> HIDE DEF good
        <2>1. \A d, e \in good : d.id = e.id => d = e
            BY <1>9, Zenon
        <2>2. \A e \in good : Entry(s, r, e).link = e.id
            <3> HIDE DEF eligible
            <3> QED
                BY <1>10, EntryIsTyped
        <2> SUFFICES ASSUME NEW a \in entries, NEW b \in entries, a.link = b.link
                     PROVE  a = b
            BY Zenon
        <2>3. PICK d \in good : a = Entry(s, r, d)
            OBVIOUS
        <2>4. PICK e \in good : b = Entry(s, r, e)
            OBVIOUS
        <2>5. d.id = e.id
            BY <2>2, <2>3, <2>4
        <2> QED
            BY <2>1, <2>3, <2>4, <2>5, Zenon
    <1>15. \A n \in eligible : adjacency[n] \in Seq({a \in entries : a.from = n})
        <2> HIDE DEF entries, eligible
        <2>1. \A n \in eligible : adjacency[n] = SortedAdjacency(entries, n)
            OBVIOUS
        <2> HIDE DEF adjacency
        <2> QED
            BY <1>11, <1>12, <1>14, <2>1, AdjacencyLists
    <1>16. DOMAIN adjacency = eligible
        <2> HIDE DEF entries, eligible
        <2> QED
            OBVIOUS
    <1>17. /\ r.policy.hop_cost \in Nat /\ r.policy.degraded_penalty \in Nat
           /\ r.policy.locality_penalty \in Nat
        BY DEF Request
    <1>18. ViewShape(v, entries)
        <2> HIDE DEF entries, eligible, adjacency
        <2> QED
            BY <1>3, <1>7, <1>8, <1>11, <1>13, <1>14, <1>15, <1>16, <1>17 DEF ViewShape
    <1>19. eligible = {id \in ids : EvaluateNode(s, r.constraints, id) = OK}
        OBVIOUS
    <1>20. entries = {Entry(s, r, e) : e \in
                        {e \in s.edges : EdgeVerdict(s, r, v.nodes, e) = Eligible}}
        <2>1. good = {e \in s.edges : EdgeVerdict(s, r, eligible, e) = Eligible}
            <3> HIDE DEF eligible
            <3> QED
                OBVIOUS
        <2> HIDE DEF good, eligible
        <2> QED
            BY <1>3, <2>1
    <1> HIDE DEF entries, eligible
    <1>21. v.nodes = {id \in {n.id : n \in s.nodes} : EvaluateNode(s, r.constraints, id) = OK}
        BY <1>3, <1>19
    <1>22. src \in v.nodes /\ dst \in v.nodes
        BY <1>3, <1>4
    <1> QED
        BY <1>3, <1>18, <1>20, <1>21, <1>22, Zenon

-----------------------------------------------------------------------------
(* The plan around the enumeration.                                        *)

\* Nothing was searched yet, or the request was refused.
IdleInv ==
  /\ stage \in {"build", "plan", "search", "done"}
  /\ stage \in {"build", "plan"} => enum.phase = "idle"
  /\ stage = "search" => enum.phase # "idle"
  /\ enum.phase = "idle" => call = Idle /\ budget = NewBudget(S.limits)
  /\ stage = "done" /\ enum.phase = "idle" => result.candidates = << >>

\* An enumeration answers the request, over the view of the request.
QuestionInv ==
  LET src == NodeOf(snapshot, request.source)
      dst == NodeOf(snapshot, request.destination)
  IN  /\ stage \in {"search", "done"}
      /\ request \in S.requests
      /\ Refusal(request, S.limits) = <<OK, OK>>
      /\ view = BuildPlanningView(snapshot, request, S.limits, src, dst)
      /\ view.fatal = OK
      /\ enum.options = Options(request, S.limits, src, dst)
      /\ EnumInv(snapshot, view, Entries(snapshot, request, view), enum.options, S.limits,
                 enum, call, budget)
      /\ stage = "done" => enum.phase = "done"

\* The inductive invariant of a plan.
PlanInv ==
  /\ BuilderInv
  /\ RecordsInv
  /\ IdleInv
  /\ enum.phase # "idle" => QuestionInv

\* The options that Plan fills in.
LEMMA OptionFields ==
    ASSUME NEW r, NEW l, NEW src, NEW dst, NEW o, o = Options(r, l, src, dst)
    PROVE  /\ o.source = src /\ o.destination = dst /\ o.k = r.max_candidates
           /\ o.max_hops = r.constraints.max_hops
           /\ o.stages = r.constraints.required_transit
           /\ o.member_limit = r.constraints.max_members_per_failure_domain
           /\ o.fail_closed = r.constraints.fail_closed_on_unknown_domains
    <1> DEFINE w == IF r.constraints.max_members_per_failure_domain = Absent
                    THEN r.max_candidates
                    ELSE Max({r.max_candidates, l.max_enumeration_candidates})
    <1>1. o = [source |-> src, destination |-> dst, k |-> r.max_candidates,
               max_hops |-> r.constraints.max_hops, stages |-> r.constraints.required_transit,
               member_limit |-> r.constraints.max_members_per_failure_domain,
               fail_closed |-> r.constraints.fail_closed_on_unknown_domains,
               wanted |-> w]
        BY DEF Options
    <1> HIDE DEF w
    <1> QED
        BY <1>1

\* What holds of the view and the options of a request that is not refused.
LEMMA PlanContext ==
    ASSUME SnapshotCoherent, RecordsInv, NEW r \in S.requests,
           Refusal(r, S.limits) = <<OK, OK>>,
           NEW src, src = NodeOf(snapshot, r.source),
           NEW dst, dst = NodeOf(snapshot, r.destination),
           NEW v, v = BuildPlanningView(snapshot, r, S.limits, src, dst), v.fatal = OK,
           NEW o, o = Options(r, S.limits, src, dst)
    PROVE  /\ snapshot.ok /\ SnapshotTyped(snapshot) /\ Request(r)
           /\ ViewShape(v, Entries(snapshot, r, v))
           /\ OptionsGood(v, o)
           /\ Limits(S.limits)
           /\ v.provisional = Provisional(r)
           /\ v.nodes = EligibleNodes(snapshot, r)
    <1> DEFINE l == S.limits
               E == Entries(snapshot, r, v)
    <1>1. /\ Request(r) /\ l.max_nodes \in 0..InfiniteHops
          /\ {l.max_expanded_states, l.max_queue_entries, l.max_spur_searches} \subseteq Nat
        BY ScenarioAssumption DEF RecordsInv, S
    <1>2. snapshot.ok /\ src \in NodeIds(snapshot) /\ dst \in NodeIds(snapshot)
        BY NotRefused DEF NodeIds
    <1>3. SnapshotTyped(snapshot)
        BY <1>2 DEF RecordsInv
    <1>4. /\ \A x, y \in snapshot.edges : x.id = y.id => x = y
          /\ \A e \in snapshot.edges : {e.from, e.to} \subseteq NodeIds(snapshot)
        <2>1. \A field \in {"nodes", "edges", "endpoints"} :
                \A x, y \in snapshot[field] : x.id = y.id => x = y
            BY <1>2 DEF SnapshotCoherent
        <2>2. \A e \in snapshot.edges : /\ \E n \in snapshot.nodes : n.id = e.from
                                        /\ \E n \in snapshot.nodes : n.id = e.to
            BY <1>2 DEF SnapshotCoherent
        <2> QED
            BY <2>1, <2>2 DEF NodeIds
    <1>5. v = BuildPlanningView(snapshot, r, l, src, dst)
        OBVIOUS
    <1> HIDE DEF l
    <1>6. /\ v.nodes = EligibleNodes(snapshot, r)
          /\ src \in v.nodes /\ dst \in v.nodes
          /\ v.provisional = Provisional(r)
          /\ ViewShape(v, Entries(snapshot, r, v))
        BY <1>1, <1>2, <1>3, <1>4, <1>5, ViewIsShaped
    <1>7. ViewShape(v, E)
        BY <1>6
    <1>8. OptionsGood(v, o)
        <2>1. /\ o.source = src /\ o.destination = dst /\ o.k = r.max_candidates
              /\ o.max_hops = r.constraints.max_hops
              /\ o.stages = r.constraints.required_transit
              /\ o.member_limit = r.constraints.max_members_per_failure_domain
            BY OptionFields
        <2>2. /\ r.max_candidates \in Nat /\ r.constraints.max_hops \in Nat \cup {Absent}
              /\ r.constraints.max_members_per_failure_domain \in Nat \cup {Absent}
              /\ r.constraints.required_transit \in Seq(Range(r.constraints.required_transit))
              /\ \A t \in Range(r.constraints.required_transit) : t.alternatives \in Seq(Nat)
            BY <1>1 DEF Request
        <2> QED
            BY <1>6, <2>1, <2>2, Zenon DEF OptionsGood
    <1>9. Limits(S.limits)
        BY <1>1 DEF Limits, l
    <1> QED
        BY <1>1, <1>2, <1>3, <1>6, <1>7, <1>8, <1>9

\* A fresh enumeration satisfies its invariant.
LEMMA NewIsGood ==
    ASSUME NEW s, NEW v, NEW E, NEW o, NEW l, Limits(l)
    PROVE  EnumInv(s, v, E, o, l, NewEnumeration(o), Idle, NewBudget(l))
    <1> DEFINE P == Paths(v, E, o)
               e == NewEnumeration(o)
               b == NewBudget(l)
    <1>1. << >> \in Seq(P) /\ Range(<< >>) = {}
        BY DEF Range
    <1>2. /\ NoResult \in ResultRecords(P) /\ NoResult.paths = << >>
          /\ NoResult.failure # "WORK_BUDGET_EXHAUSTED"
        BY <1>1 DEF NoResult, ResultRecords, Failures
    <1> HIDE DEF P
    <1>3. /\ e.phase = "start" /\ e.result = NoResult /\ e.pending = {} /\ e.best = {}
        BY DEF NewEnumeration
    <1>4. e \in EnumRecords(P, o)
        BY <1>1, <1>2 DEF NewEnumeration, EnumRecords, Phases, Failures
    <1> HIDE DEF e
    <1>5. YenInv(o, e, Idle) /\ LegInv(P, o, e, Idle)
        BY <1>3 DEF YenInv, LegInv
    <1>6. b \in WorkBudgets(l) /\ ~b.exhausted
        BY DEF NewBudget, WorkBudgets, Limits
    <1> HIDE DEF b
    <1>7. WorkInv(v, o, l, e, Idle, b)
        BY <1>2, <1>3, <1>6 DEF WorkInv, Waiting
    <1>8. FoundInv(s, o, e)
        BY <1>1, <1>2, <1>3, FS_EmptySet DEF FoundInv
    <1> QED
        BY <1>4, <1>5, <1>7, <1>8 DEF EnumInv, P, e, b

\* So does the answer to a request from a node to itself.
LEMMA IdentityIsGood ==
    ASSUME NEW s, NEW v, NEW E, NEW o, NEW l, Limits(l), OptionsGood(v, o), o.stages = << >>,
           NEW r
    PROVE  EnumInv(s, v, E, o, l, Identity(r, o), Idle, NewBudget(l))
    <1> DEFINE P == Paths(v, E, o)
               p == [nodes |-> <<o.source>>, hops |-> << >>]
               ps == <<p>>
               yes == [NoResult EXCEPT !.ok = TRUE, !.paths = ps]
               no == [NoResult EXCEPT !.failure = "ZERO_HOP_SELF_PATH_DISALLOWED"]
               res == IF r.policy.allow_zero_hop_self_path THEN yes ELSE no
               new == NewEnumeration(o)
               e == [new EXCEPT !.phase = "done", !.result = res]
               b == NewBudget(l)
    <1>0. Identity(r, o) = e
        BY DEF Identity
    <1>1. p \in P /\ p.hops = << >>
        <2>1. /\ p \in PathSet(v, E) /\ p.hops = << >> /\ Len(<< >>) = 0
            BY TrivialPath DEF OptionsGood
        <2> HIDE DEF p
        <2>2. o.max_hops # Absent => Len(p.hops) <= o.max_hops
            BY <2>1 DEF OptionsGood
        <2> QED
            BY <2>1, <2>2, PathsAre
    <1> HIDE DEF P, p
    <1>2. ps \in Seq(P) /\ Range(ps) = {p}
        <2>1. ps \in Seq(P) /\ Len(ps) = 1 /\ ps[1] = p /\ DOMAIN ps = {1}
            BY <1>1, OneElement
        <2> QED
            BY <2>1 DEF Range
    <1> HIDE DEF ps
    <1>3. Visits(p, o, Len(o.stages))
        <2>1. Len(o.stages) = 0
            OBVIOUS
        <2> QED
            BY <2>1, VisitsNone
    <1>4. \A n, f : DomainMemberLimitCompliant(s, p, n, f)
        <2>1. DOMAIN p.hops = {}
            BY <1>1
        <2> QED
            BY <2>1 DEF DomainMemberLimitCompliant
    <1>5. << >> \in Seq(P) /\ Range(<< >>) = {}
        BY DEF Range
    <1>6. NoResult \in ResultRecords(P) /\ NoResult.paths = << >>
          /\ NoResult.failure # "WORK_BUDGET_EXHAUSTED"
        BY <1>5 DEF NoResult, ResultRecords, Failures
    <1>7. yes \in ResultRecords(P) /\ yes.paths = ps /\ yes.failure # "WORK_BUDGET_EXHAUSTED"
        BY <1>2, <1>6 DEF ResultRecords
    <1>8. no \in ResultRecords(P) /\ no.paths = << >> /\ no.failure # "WORK_BUDGET_EXHAUSTED"
        BY <1>6 DEF ResultRecords, Failures
    <1> HIDE DEF yes, no
    <1>9. /\ res \in ResultRecords(P) /\ Range(res.paths) \subseteq {p}
          /\ res.failure # "WORK_BUDGET_EXHAUSTED"
        BY <1>2, <1>5, <1>7, <1>8
    <1> HIDE DEF res
    <1>10. /\ new \in EnumRecords(P, o) /\ FoundInv(s, o, new)
           /\ NewBudget(l) \in WorkBudgets(l) /\ ~NewBudget(l).exhausted
        <2>1. EnumInv(s, v, E, o, l, new, Idle, NewBudget(l))
            BY NewIsGood
        <2>2. NewBudget(l).exhausted = FALSE
            BY DEF NewBudget
        <2> QED
            BY <2>1, <2>2 DEF EnumInv, WorkInv, P
    <1> HIDE DEF new
    <1>11. /\ e \in EnumRecords(P, o) /\ e.phase = "done" /\ e.result = res
           /\ e.pending = new.pending /\ e.best = new.best
        <2>1. e = Ended(new, res)
            BY DEF Ended
        <2> QED
            BY <1>9, <1>10, <2>1, EndedFields
    <1> HIDE DEF e, b
    <1>12. YenInv(o, e, Idle) /\ LegInv(P, o, e, Idle)
        BY <1>11 DEF YenInv, LegInv
    <1>13. WorkInv(v, o, l, e, Idle, b)
        BY <1>9, <1>10, <1>11 DEF WorkInv, Waiting, b
    <1>14. FoundInv(s, o, e)
        BY <1>3, <1>4, <1>9, <1>10, <1>11 DEF FoundInv
    <1> QED
        BY <1>0, <1>11, <1>12, <1>13, <1>14 DEF EnumInv, P, b

\* A plan starts with the invariant.
LEMMA InitPlan ==
    ASSUME Init
    PROVE  PlanInv
    <1>1. BuilderInv /\ RecordsInv
        BY InitBuilder, InitRecords
    <1>2. enum.phase = "idle"
        BY DEF Init, NoEnumeration
    <1>3. stage = "build" /\ call = Idle /\ budget = NewBudget(S.limits)
        BY DEF Init
    <1>4. IdleInv
        BY <1>2, <1>3 DEF IdleInv
    <1> QED
        BY <1>1, <1>2, <1>4 DEF PlanInv

\* No step of an enumeration changes the view.
LEMMA ViewStays ==
    ASSUME EnumStep
    PROVE  view' = view
    <1>1. CASE EnumStart
        BY <1>1 DEF EnumStart, Search, Fail, FailLimit, Finish, Goto
    <1>2. CASE Pop
        BY <1>2 DEF Pop
    <1>3. CASE First
        BY <1>3 DEF First, Fail, FailLimit, Finish, Goto
    <1>4. CASE Spur
        BY <1>4 DEF Spur, Finish, Goto, Search, OutOfSpurs
    <1>5. CASE SpurFound
        BY <1>5 DEF SpurFound, FailLimit, Finish, Goto
    <1>6. CASE Combination
        BY <1>6 DEF Combination, Fail, Finish, Goto
    <1>7. CASE Leg
        BY <1>7 DEF Leg, NextCombination, Goto, Search
    <1>8. CASE LegFound
        BY <1>8 DEF LegFound, FailLimit, Finish, NextCombination, Goto
    <1>9. CASE FinalFound
        BY <1>9 DEF FinalFound, FailLimit, Finish, NextCombination, Goto
    <1> QED
        BY <1>1, <1>2, <1>3, <1>4, <1>5, <1>6, <1>7, <1>8, <1>9 DEF EnumStep

\* The invariant of an enumeration says that it has begun.
LEMMA EnumBegun ==
    ASSUME NEW s, NEW v, NEW E, NEW o, NEW l, NEW e, NEW c, NEW b,
           EnumInv(s, v, E, o, l, e, c, b)
    PROVE  e.phase # "idle" /\ e.options = o
    BY DEF EnumInv, EnumRecords, Phases, Waiting

\* What an enumeration in progress relies on.
LEMMA PlanEnumGood ==
    ASSUME PlanInv, enum.phase # "idle"
    PROVE  /\ EnumGood(Entries(snapshot, request, view), enum.options, S.limits)
           /\ snapshot.ok /\ SnapshotTyped(snapshot) /\ Request(request)
           /\ view.provisional = Provisional(request)
           /\ view.nodes = EligibleNodes(snapshot, request)
    <1> DEFINE src == NodeOf(snapshot, request.source)
               dst == NodeOf(snapshot, request.destination)
               E == Entries(snapshot, request, view)
    <1>1. QuestionInv /\ SnapshotCoherent /\ RecordsInv
        BY DEF PlanInv, BuilderInv
    <1>2. /\ request \in S.requests /\ Refusal(request, S.limits) = <<OK, OK>>
          /\ view = BuildPlanningView(snapshot, request, S.limits, src, dst) /\ view.fatal = OK
          /\ enum.options = Options(request, S.limits, src, dst)
          /\ EnumInv(snapshot, view, E, enum.options, S.limits, enum, call, budget)
        BY <1>1 DEF QuestionInv
    <1> HIDE DEF E
    <1>3. /\ snapshot.ok /\ SnapshotTyped(snapshot) /\ Request(request)
          /\ ViewShape(view, Entries(snapshot, request, view))
          /\ OptionsGood(view, enum.options) /\ Limits(S.limits)
          /\ view.provisional = Provisional(request)
          /\ view.nodes = EligibleNodes(snapshot, request)
        BY <1>1, <1>2, PlanContext
    <1> QED
        BY <1>2, <1>3 DEF EnumGood, EnumContext, E

\* Plan refuses the request or starts an enumeration that has its invariant.
LEMMA PlanStarts ==
    ASSUME PlanInv, NEW r \in S.requests, Plan(r)
    PROVE  IdleInv' /\ (enum'.phase # "idle" => QuestionInv')
    <1> DEFINE refusal == Refusal(r, S.limits)
               src == NodeOf(snapshot, r.source)
               dst == NodeOf(snapshot, r.destination)
               v == BuildPlanningView(snapshot, r, S.limits, src, dst)
               options == Options(r, S.limits, src, dst)
    <1>1. /\ stage = "plan" /\ request' = r
          /\ snapshot' = snapshot /\ call' = call /\ scenario' = scenario
          /\ IF refusal # <<OK, OK>> THEN Refuse(refusal[1], refusal[2])
             ELSE IF v.fatal # OK THEN Refuse("CONSTRAINT_UNSATISFIED", v.fatal)
             ELSE /\ view' = v
                  /\ budget' = NewBudget(S.limits)
                  /\ enum' = IF src = dst /\ options.stages = << >> THEN Identity(r, options)
                             ELSE NewEnumeration(options)
                  /\ stage' = "search"
        BY DEF Plan
    <1>2. IdleInv /\ SnapshotCoherent /\ RecordsInv
        BY DEF PlanInv, BuilderInv
    <1>3. enum.phase = "idle" /\ call = Idle /\ budget = NewBudget(S.limits)
        BY <1>1, <1>2 DEF IdleInv
    <1>4. S' = S
        BY <1>1 DEF S
    <1>5. CASE refusal # <<OK, OK>> \/ v.fatal # OK
        <2>1. \E a, b : Refuse(a, b)
            <3> HIDE DEF refusal, v
            <3> QED
                BY <1>1, <1>5
        <2>2. stage' = "done" /\ result'.candidates = << >> /\ budget' = budget /\ enum' = enum
            BY <2>1 DEF Refuse, Answer
        <2> QED
            BY <1>1, <1>3, <1>4, <2>2 DEF IdleInv
    <1>6. CASE refusal = <<OK, OK>> /\ v.fatal = OK
        <2>1. /\ view' = v /\ budget' = NewBudget(S.limits) /\ stage' = "search"
              /\ enum' = IF src = dst /\ options.stages = << >> THEN Identity(r, options)
                         ELSE NewEnumeration(options)
            <3> HIDE DEF refusal, v, options
            <3> QED
                BY <1>1, <1>6
        <2> DEFINE E == Entries(snapshot, r, v)
        <2>2. OptionsGood(v, options) /\ Limits(S.limits)
            <3> DEFINE s1 == src
                       d1 == dst
                       v1 == v
                       o1 == options
            <3>1. /\ s1 = NodeOf(snapshot, r.source) /\ d1 = NodeOf(snapshot, r.destination)
                  /\ v1 = BuildPlanningView(snapshot, r, S.limits, s1, d1) /\ v1.fatal = OK
                  /\ o1 = Options(r, S.limits, s1, d1)
                  /\ Refusal(r, S.limits) = <<OK, OK>>
                BY <1>6
            <3> HIDE DEF s1, d1, v1, o1
            <3>2. OptionsGood(v1, o1) /\ Limits(S.limits)
                BY <1>2, <3>1, PlanContext
            <3> QED
                BY <3>2 DEF v1, o1
        <2>3. refusal = Refusal(r, S.limits)
            OBVIOUS
        <2>4. EnumInv(snapshot, v, E, options, S.limits, enum', Idle, NewBudget(S.limits))
            <3> HIDE DEF v, options, src, dst, E
            <3>1. CASE src = dst /\ options.stages = << >>
                <4>1. enum' = Identity(r, options)
                    BY <2>1, <3>1
                <4> QED
                    BY <2>2, <3>1, <4>1, IdentityIsGood
            <3>2. CASE ~(src = dst /\ options.stages = << >>)
                <4>1. enum' = NewEnumeration(options)
                    BY <2>1, <3>2
                <4> QED
                    BY <2>2, <4>1, NewIsGood
            <3> QED
                BY <3>1, <3>2
        <2>5. enum'.phase # "idle" /\ enum'.options = options
            <3> HIDE DEF v, options, E
            <3> QED
                BY <2>4, EnumBegun
        <2>6. IdleInv'
            <3> HIDE DEF v, options
            <3> QED
                BY <2>1, <2>5 DEF IdleInv
        <2>7. /\ Refusal(request, S.limits)' = refusal
              /\ NodeOf(snapshot, request.source)' = src
              /\ NodeOf(snapshot, request.destination)' = dst
              /\ Entries(snapshot, request, view)' = E
            <3>1. Refusal(request, S.limits)' = refusal
                BY <1>1, <1>4 DEF Refusal, RuntimeEpoch
            <3>2. Entries(snapshot, request, view)' = Entries(snapshot', request', view')
                OBVIOUS
            <3> HIDE DEF v
            <3> QED
                BY <1>1, <2>1, <3>1, <3>2
        <2>8. QuestionInv'
            <3> HIDE DEF v, options, src, dst, E, refusal
            <3>1. view' = BuildPlanningView(snapshot, r, S.limits, src, dst)
                BY <2>1 DEF v
            <3>2. enum'.options = Options(r, S.limits, src, dst)
                BY <2>5 DEF options
            <3>3. EnumInv(snapshot', view', E, enum'.options, S'.limits, enum', call', budget')
                BY <1>1, <1>3, <1>4, <2>1, <2>4, <2>5
            <3> QED
                BY <1>1, <1>4, <1>6, <2>1, <2>7, <3>1, <3>2, <3>3 DEF QuestionInv
        <2> QED
            BY <2>6, <2>8
    <1> QED
        BY <1>5, <1>6

\* A step that leaves the question and the enumeration alone.
LEMMA QuestionStays ==
    ASSUME QuestionInv, UNCHANGED <<snapshot, view, budget, call, enum, scenario, request>>,
           stage' \in {"search", "done"}, stage' = "done" => enum.phase = "done"
    PROVE  QuestionInv'
    <1>1. S' = S
        BY DEF S
    <1>2. Refusal(request, S.limits)' = Refusal(request, S.limits)
        BY <1>1 DEF Refusal, RuntimeEpoch
    <1> DEFINE s == snapshot
               r == request
               l == S.limits
               Rest(x, y, z, w, e, c, b) ==
                 LET src == NodeOf(x, y.source)
                     dst == NodeOf(x, y.destination)
                 IN  /\ w = BuildPlanningView(x, y, z, src, dst)
                     /\ w.fatal = OK
                     /\ e.options = Options(y, z, src, dst)
                     /\ EnumInv(x, w, Entries(x, y, w), e.options, z, e, c, b)
    <1>3. Rest(s, r, l, view, enum, call, budget)
        BY DEF QuestionInv
    <1> HIDE DEF Rest
    <1>4. Rest(s', r', l', view', enum', call', budget')
        BY <1>1, <1>3
    <1>5. /\ request' \in S'.requests /\ Refusal(request, S.limits)' = <<OK, OK>>
        BY <1>1, <1>2 DEF QuestionInv
    <1> QED
        BY <1>4, <1>5 DEF QuestionInv, Rest

\* Every step keeps the invariant of a plan.
LEMMA PlanStep ==
    ASSUME PlanInv, [Next]_vars
    PROVE  PlanInv'
    <1>1. BuilderInv' /\ RecordsInv'
        BY BuilderStep, RecordsStep DEF PlanInv
    <1>2. IdleInv /\ (enum.phase # "idle" => QuestionInv)
        BY DEF PlanInv
    <1>3. CASE CallBuilder \/ CallBuild
        <2>1. /\ stage = "build" /\ stage' \in {"build", "plan"} /\ scenario' = scenario
              /\ UNCHANGED searchVars
            BY <1>3 DEF CallBuilder, CallBuild
        <2>2. enum' = enum /\ call' = call /\ budget' = budget /\ S' = S
            BY <2>1 DEF searchVars, S
        <2>3. enum.phase = "idle"
            BY <1>2, <2>1 DEF IdleInv
        <2>4. IdleInv'
            BY <1>2, <2>1, <2>2, <2>3 DEF IdleInv
        <2> QED
            BY <1>1, <2>2, <2>3, <2>4 DEF PlanInv
    <1>4. CASE \E r \in S.requests : Plan(r)
        BY <1>1, <1>4, PlanStarts DEF PlanInv
    <1>5. CASE Enumerate
        <2>1. /\ stage = "search" /\ EnumStep
              /\ UNCHANGED <<builder, snapshot, scenario, step, stage, request, result>>
            BY <1>5 DEF Enumerate
        <2>2. enum.phase # "idle" /\ QuestionInv
            BY <1>2, <2>1 DEF IdleInv
        <2> DEFINE E == Entries(snapshot, request, view)
                   o == enum.options
                   l == S.limits
        <2>3. EnumGood(E, o, l)
            BY <2>2, PlanEnumGood
        <2> HIDE DEF E, o, l
        <2>4. EnumInv(snapshot, view, E, o, l, enum', call', budget')
            BY <2>1, <2>3, EnumStepInv
        <2>5. enum'.phase # "idle" /\ enum'.options = o
            BY <2>4, EnumBegun
        <2>6. view' = view /\ S' = S
            BY <2>1, ViewStays DEF S
        <2>7. IdleInv'
            BY <2>1, <2>5 DEF IdleInv
        <2>8. Refusal(request, S.limits)' = Refusal(request, S.limits)
            BY <2>1, <2>6 DEF Refusal, RuntimeEpoch
        <2>9. EnumInv(snapshot, view, Entries(snapshot, request, view), enum.options, S.limits,
                      enum, call, budget)'
            BY <2>1, <2>4, <2>5, <2>6 DEF E, o, l
        <2>10. enum'.options = enum.options
            BY <2>5 DEF o
        <2>11. QuestionInv'
            BY <2>1, <2>2, <2>6, <2>8, <2>9, <2>10 DEF QuestionInv
        <2> QED
            BY <1>1, <2>7, <2>11 DEF PlanInv
    <1>6. CASE Conclude
        <2>1. /\ stage = "search" /\ enum.phase = "done" /\ stage' = "done"
              /\ UNCHANGED <<builder, snapshot, scenario, step, request>>
              /\ UNCHANGED <<view, budget, call, enum>>
            BY <1>6 DEF Conclude, searchVars
        <2>2. enum.phase # "idle" /\ QuestionInv
            BY <1>2, <2>1
        <2>3. QuestionInv'
            BY <2>1, <2>2, QuestionStays
        <2>4. IdleInv'
            BY <2>1 DEF IdleInv
        <2> QED
            BY <1>1, <2>3, <2>4 DEF PlanInv
    <1>7. CASE Done \/ UNCHANGED vars
        <2>1. UNCHANGED <<builder, snapshot, view, budget, call, enum,
                          scenario, step, stage, request, result>>
            BY <1>7 DEF Done, vars
        <2>2. S' = S
            BY <2>1 DEF S
        <2>3. IdleInv'
            BY <1>2, <2>1, <2>2 DEF IdleInv
        <2>4. enum.phase # "idle" => QuestionInv'
            <3> SUFFICES ASSUME enum.phase # "idle"
                         PROVE  QuestionInv'
                OBVIOUS
            <3>1. QuestionInv /\ stage \in {"search", "done"} /\ (stage = "done" => enum.phase = "done")
                BY <1>2 DEF QuestionInv
            <3> QED
                BY <2>1, <3>1, QuestionStays
        <2> QED
            BY <1>1, <2>1, <2>3, <2>4 DEF PlanInv
    <1> QED
        BY <1>3, <1>4, <1>5, <1>6, <1>7 DEF Next

\* From the builder's first call to the answer, a plan keeps its inductive invariant:
\* the enumeration answers the request over the view of that request, every path it holds
\* is a path of that view within the hop bound, and the budget is spent where the results
\* say so (planner.cpp, Plan; search.cpp).
THEOREM PlanIsSound == Spec => []PlanInv
    <1>1. Init => PlanInv
        BY InitPlan
    <1>2. PlanInv /\ [Next]_vars => PlanInv'
        BY PlanStep
    <1> QED
        BY <1>1, <1>2, PTL DEF Spec

-----------------------------------------------------------------------------
(* The types.                                                              *)

\* The variables keep their types: no budget counter goes below zero or above its limit,
\* and the labels of a running search stay within the 64-bit cost range (search.cpp).
THEOREM TypesHold == Spec => []TypeOK
    <1>1. PlanInv => TypeOK
        <2> SUFFICES ASSUME PlanInv
                     PROVE  TypeOK
            OBVIOUS
        <2>1. IdleInv /\ RecordsInv
            BY DEF PlanInv
        <2>2. stage \in {"build", "plan", "search", "done"}
            BY <2>1 DEF IdleInv
        <2>3. /\ scenario \in DOMAIN Scenarios /\ step \in 1..(Len(S.calls) + 1)
              /\ snapshot.ok \in BOOLEAN
            BY <2>1 DEF RecordsInv
        <2>4. \A field \in {"nodes", "edges", "endpoints"} :
                builder[field] \in Seq(Range(builder[field]))
            <3>1. \A T : \A s \in Seq(T) : s \in Seq(Range(s))
                BY DEF Range
            <3>2. /\ builder["nodes"] \in Seq(NodeRecords) /\ builder["edges"] \in Seq(EdgeRecords)
                  /\ builder["endpoints"] \in Seq(EndpointRecords)
                BY <2>1 DEF RecordsInv
            <3> QED
                BY <3>1, <3>2
        <2>5. Limits(S.limits)
            BY <2>3, ScenarioAssumption DEF Limits, S
        <2> DEFINE l == S.limits
        <2>6. /\ budget \in WorkBudgets(l)
              /\ call.status \in {"idle", "running", "trivial", "none", "limit"}
              /\ call.status = "running" => RunInv(view, call)
            <3>1. CASE enum.phase = "idle"
                <4>1. call = Idle /\ budget = NewBudget(l)
                    BY <2>1, <3>1 DEF IdleInv
                <4> QED
                    BY <2>5, <4>1 DEF Idle, NewBudget, WorkBudgets, Limits
            <3>2. CASE enum.phase # "idle"
                <4>1. WorkInv(view, enum.options, l, enum, call, budget)
                    BY <3>2 DEF PlanInv, QuestionInv, EnumInv
                <4> QED
                    BY <4>1 DEF WorkInv, CallGood, Idle
            <3> QED
                BY <3>1, <3>2
        <2>7. /\ budget.states \in 0..l.max_expanded_states
              /\ budget.pushes \in 0..l.max_queue_entries
              /\ budget.spurs \in 0..l.max_spur_searches
            BY <2>6 DEF WorkBudgets
        <2>8. call.status = "running" =>
                \A k \in DOMAIN call.dist : call.dist[k][1] \in 0..CostMax
                                            /\ call.dist[k][2] \in 0..InfiniteHops
            <3> SUFFICES ASSUME call.status = "running"
                         PROVE  \A k \in DOMAIN call.dist : call.dist[k][1] \in 0..CostMax
                                            /\ call.dist[k][2] \in 0..InfiniteHops
                OBVIOUS
            <3>1. call.dist \in [KeysOf(view, call) -> Labels]
                BY <2>6 DEF RunInv, CallRecords
            <3> QED
                BY <3>1 DEF Labels
        <2> QED
            BY <2>2, <2>3, <2>4, <2>6, <2>7, <2>8 DEF TypeOK
    <1> QED
        BY <1>1, PlanIsSound, PTL

-----------------------------------------------------------------------------
(* Settled labels.                                                         *)

\* A search that goes on made a turn of its own loop: every other step of the
\* enumeration starts a search or drops one.
LEMMA OnlyPopGoesOn ==
    ASSUME PlanInv, EnumStep, enum.phase # "idle",
           call.status = "running", call'.status = "running"
    PROVE  Pop
    <1>1. WorkInv(view, enum.options, S.limits, enum, call, budget)
        BY DEF PlanInv, QuestionInv, EnumInv
    <1>2. enum.phase \in Waiting
        BY <1>1 DEF WorkInv, Idle
    <1>3. call' # Idle
        BY DEF Idle
    <1>4. ~EnumStart /\ ~Spur /\ ~Combination /\ ~Leg
        BY <1>2 DEF EnumStart, Spur, Combination, Leg, Waiting
    <1>5. ~First
        BY <1>3 DEF First, Fail, FailLimit, Finish, Goto
    <1>6. ~SpurFound
        BY <1>3 DEF SpurFound, FailLimit, Finish, Goto
    <1>7. ~LegFound
        BY <1>3 DEF LegFound, FailLimit, Finish, NextCombination, Goto
    <1>8. ~FinalFound
        BY <1>3 DEF FinalFound, FailLimit, Finish, NextCombination, Goto
    <1> QED
        BY <1>4, <1>5, <1>6, <1>7, <1>8 DEF EnumStep

\* During one search the label of a settled node is final, for every fabric and every cost
\* policy: the queue order never lets a later relaxation improve it (search.cpp).
THEOREM SettledStays == Spec => SettledIsFinal
    <1> DEFINE Final == (call.status = "running" /\ call'.status = "running" /\ enum' = enum) =>
                          /\ call.settled \subseteq call'.settled
                          /\ \A k \in call.settled : call'.dist[k] = call.dist[k]
    <1>1. PlanInv /\ [Next]_vars => [Final]_vars
        <2> SUFFICES ASSUME PlanInv, [Next]_vars, call.status = "running",
                            call'.status = "running"
                     PROVE  /\ call.settled \subseteq call'.settled
                            /\ \A k \in call.settled : call'.dist[k] = call.dist[k]
            OBVIOUS
        <2>1. CASE call' = call
            BY <2>1
        <2>2. CASE Enumerate
            <3>1. EnumStep /\ stage = "search"
                BY <2>2 DEF Enumerate
            <3>2. enum.phase # "idle"
                BY <3>1 DEF PlanInv, IdleInv
            <3>3. Pop
                BY <3>1, <3>2, OnlyPopGoesOn
            <3> DEFINE E == Entries(snapshot, request, view)
                       o == enum.options
                       l == S.limits
            <3>4. EnumGood(E, o, l)
                BY <3>2, PlanEnumGood
            <3> HIDE DEF E, o, l
            <3>5. PopOutcome(view, call, call', budget', l)
                BY <3>3, <3>4, PopInv
            <3> QED
                BY <3>5 DEF PopOutcome
        <2>3. CASE CallBuilder \/ CallBuild \/ (\E r \in S.requests : Plan(r)) \/ Conclude \/ Done
                     \/ UNCHANGED vars
            <3>1. call' = call
                BY <2>3 DEF CallBuilder, CallBuild, Plan, Conclude, Done, vars, searchVars
            <3> QED
                BY <2>1, <3>1
        <2> QED
            BY <2>2, <2>3 DEF Next
    <1> QED
        BY <1>1, PlanIsSound, PTL DEF Spec, SettledIsFinal

-----------------------------------------------------------------------------
(* A spent budget and the answer.                                          *)

\* The ranked paths are the paths that pass the last checks.
LEMMA RankedAreChecked ==
    ASSUME NEW E, ViewShape(view, E), enum.result.paths \in Seq(PathSet(view, E))
    PROVE  LET X == {p \in Range(enum.result.paths) : IsWellFormed(p) /\ RawPathIsSimple(p)}
           IN  Ranked \in Seq(X)
    <1> DEFINE s == enum.result.paths
               X == {p \in Range(s) : IsWellFormed(p) /\ RawPathIsSimple(p)}
               Y == {p \in Range(s) : /\ AccumulatePathCost(view, p.hops) # Overflow
                                      /\ IsWellFormed(p)
                                      /\ RawPathIsSimple(p)}
               R == {p \in Y \X Y : RankedBefore(view, p[1], p[2])}
               N == Cardinality(Y)
    <1>1. Y \subseteq X /\ Y \subseteq Range(s)
        OBVIOUS
    <1>2. Range(s) \subseteq PathSet(view, E) /\ IsFiniteSet(Range(s))
        <2>1. Range(s) = {s[i] : i \in DOMAIN s} /\ DOMAIN s = 1..Len(s) /\ Len(s) \in Nat
            BY DEF Range
        <2>2. IsFiniteSet(DOMAIN s)
            BY <2>1, FS_Interval
        <2>3. IsFiniteSet({s[i] : i \in DOMAIN s})
            BY <2>2, ImageFinite
        <2> QED
            BY <2>1, <2>3
    <1>3. Ranked = [i \in 1..N |->
                      CHOOSE x \in Y : Cardinality({y \in Y : RankedBefore(view, y, x)}) = i - 1]
        BY DEF Ranked, Ordered
    <1> HIDE DEF X, Y, s
    <1>4. Y \in SUBSET PathSet(view, E) /\ IsFiniteSet(Y)
        BY <1>1, <1>2, FS_Subset
    <1>5. StrictOrder(R, Y)
        BY <1>4, RankOrder
    <1>6. \A x \in Y : Smaller(Y, R, x) = {y \in Y : RankedBefore(view, y, x)}
        BY DEF Smaller
    <1> HIDE DEF R
    <1>7. ASSUME NEW i \in 1..N
          PROVE  (CHOOSE x \in Y : Cardinality({y \in Y : RankedBefore(view, y, x)}) = i - 1) \in Y
        <2>1. PICK z \in Y : Cardinality(Smaller(Y, R, z)) = i - 1
            BY <1>4, <1>5, RankExists
        <2>2. \E x \in Y : Cardinality({y \in Y : RankedBefore(view, y, x)}) = i - 1
            BY <1>6, <2>1
        <2> QED
            BY <2>2, Zenon
    <1>8. N \in Nat
        BY <1>4, FS_CardinalityType
    <1>9. Ranked \in [1..N -> X]
        BY <1>1, <1>3, <1>7
    <1>10. Ranked \in Seq(X)
        <2> HIDE DEF N
        <2> QED
            BY <1>8, <1>9, SeqDef
    <1> QED
        BY <1>10 DEF X, s

\* No exclusion that the log can name is the work budget.
LEMMA LoggedIsNotBudget ==
    ASSUME NEW log, NEW structural
    PROVE  PrimaryFailure(log, structural) # "WORK_BUDGET_EXHAUSTED"
    <1> DEFINE code == "WORK_BUDGET_EXHAUSTED"
               short == <<"FORBIDDEN_LINK", "FORBIDDEN_PORT", "FORBIDDEN_NODE", "LAYER_MISMATCH">>
               long == <<"LINK_STATE_DOWN", "LINK_STATE_FAULTED", "LINK_STATE_RETIRED",
                         "LINK_STATE_REVALIDATION_REQUIRED", "LINK_STATE_UNKNOWN",
                         "LINK_STATE_DEGRADED_DISALLOWED", "PORT_ADMIN_DISABLED", "PORT_DRAINING",
                         "PORT_MAINTENANCE", "PORT_RETIRED", "PORT_SUPERSEDED",
                         "PORT_REVALIDATION_REQUIRED", "PORT_UNKNOWN", "COST_OVERFLOW",
                         "CAPABILITY_UNKNOWN", "CAPABILITY_INSUFFICIENT",
                         "FAILURE_DOMAIN_FORBIDDEN", "FAILURE_DOMAIN_UNKNOWN",
                         "FAILURE_DOMAIN_CLASS_FORBIDDEN", "FAILURE_DOMAIN_MEMBER_LIMIT_EXCEEDED",
                         "FORBIDDEN_NODE", "FORBIDDEN_LINK", "FORBIDDEN_PORT">>
               order == IF ~structural THEN short ELSE long
               I == {i \in 1..Len(order) : LogContains(log, order[i])}
               i == IF I # {} THEN Min(I) ELSE 0
    <1>1. PrimaryFailure(log, structural) = IF i = 0 THEN "NO_STRUCTURAL_PATH" ELSE order[i]
        BY DEF PrimaryFailure, SelectInSeq
    <1>2. Len(short) = 4 /\ \A k \in 1..4 : short[k] # code
        OBVIOUS
    <1>3. Len(long) = 23 /\ \A k \in 1..23 : long[k] # code
        OBVIOUS
    <1> HIDE DEF short, long
    <1>4. Len(order) \in Nat /\ \A k \in 1..Len(order) : order[k] # code
        <2>1. order = short \/ order = long
            OBVIOUS
        <2> HIDE DEF order, code, I, i
        <2>2. CASE order = short
            BY <1>2, <2>2, 4 \in Nat, Zenon
        <2>3. CASE order = long
            BY <1>3, <2>3, 23 \in Nat, Zenon
        <2> QED
            BY <2>1, <2>2, <2>3
    <1> HIDE DEF order
    <1> DEFINE n == Len(order)
    <1>5. n \in Nat /\ I \in SUBSET (1..n)
        BY <1>4
    <1>6. I = {} => i = 0
        OBVIOUS
    <1>7. I # {} => i \in I
        <2> HIDE DEF I, n
        <2> QED
            BY <1>5, ScanFinds
    <1>8. I # {} => order[i] # code
        BY <1>4, <1>7
    <1> QED
        BY <1>1, <1>6, <1>8

\* An answer without candidates names the cause of the enumeration's failure.
LEMMA ExplanationSays ==
    ASSUME enum.result.ok \in BOOLEAN,
           budget.exhausted => ~enum.result.ok /\ enum.result.failure = "WORK_BUDGET_EXHAUSTED",
           enum.result.failure = "WORK_BUDGET_EXHAUSTED" => ~enum.result.ok /\ enum.result.limit
    PROVE  /\ Explanation.candidates = << >>
           /\ enum.result.failure = "WORK_BUDGET_EXHAUSTED" =>
                /\ Explanation.status = "RESOURCE_LIMIT"
                /\ Explanation.primary = "WORK_BUDGET_EXHAUSTED"
           /\ enum.result.failure # "WORK_BUDGET_EXHAUSTED" =>
                Explanation.primary # "WORK_BUDGET_EXHAUSTED"
    <1> DEFINE c        == request.constraints
               distance == StructuralHopDistance(snapshot, c, enum.options.source,
                                                 enum.options.destination)
               failed   == ~enum.result.ok
               limit    == budget.exhausted \/ (failed /\ enum.result.limit)
               named    == IF failed THEN enum.result.failure
                           ELSE IF budget.exhausted THEN "WORK_BUDGET_EXHAUSTED"
                           ELSE "NO_STRUCTURAL_PATH"
               logged   == PrimaryFailure(view.log, distance # Absent)
               primary  == IF named # "NO_STRUCTURAL_PATH" THEN named
                           ELSE IF distance # Absent /\ c.max_hops # Absent /\ distance > c.max_hops
                           THEN "MAX_HOPS_EXCEEDED"
                           ELSE logged
               status   == IF limit THEN "RESOURCE_LIMIT" ELSE StatusForFailure(primary)
    <1>1. Explanation = Answer(status, primary, << >>, enum.result.truncated)
        BY DEF Explanation
    <1>2. logged # "WORK_BUDGET_EXHAUSTED"
        BY LoggedIsNotBudget
    <1> HIDE DEF logged, distance
    <1>3. enum.result.failure = "WORK_BUDGET_EXHAUSTED" =>
            status = "RESOURCE_LIMIT" /\ primary = "WORK_BUDGET_EXHAUSTED"
        OBVIOUS
    <1>4. enum.result.failure # "WORK_BUDGET_EXHAUSTED" => primary # "WORK_BUDGET_EXHAUSTED"
        BY <1>2
    <1> HIDE DEF status, primary
    <1>5. /\ Explanation.candidates = << >> /\ Explanation.status = status
          /\ Explanation.primary = primary
        BY <1>1 DEF Answer
    <1> QED
        BY <1>3, <1>4, <1>5

\* What the last step of a plan answers.
AnswerOf(a) ==
  \/ \E k : a = Conclusion(k)
  \/ \E status, t : a = Answer(status, "AUTHORITY_VALIDATION_REJECTED", << >>, t)
  \/ a = Answer("UNSUPPORTED", "AUTHORITY_VALIDATION_UNAVAILABLE", << >>, FALSE)

\* What Conclude answers.
LEMMA ConcludeAnswers ==
    ASSUME Conclude
    PROVE  /\ AnswerOf(result')
           /\ Ranked = << >> => result' = Explanation
    <1> DEFINE mode == request.policy.authority_validation
    <1>1. IF mode = "NONE" \/ Ranked = << >>
          THEN result' = Conclusion(Label(Ranked, "NOT_REQUESTED"))
          ELSE IF S.authority THEN Consult(mode, Ranked)
          ELSE IF mode = "REQUIRED"
          THEN result' = Answer("UNSUPPORTED", "AUTHORITY_VALIDATION_UNAVAILABLE", << >>, FALSE)
          ELSE result' = Conclusion(Label(Ranked, "UNAVAILABLE"))
        BY DEF Conclude
    <1>2. Consult(mode, Ranked) => AnswerOf(result')
        BY DEF Consult, AnswerOf
    <1>3. AnswerOf(result')
        BY <1>1, <1>2 DEF AnswerOf
    <1>4. Ranked = << >> => result' = Explanation
        <2> SUFFICES ASSUME Ranked = << >>
                     PROVE  result' = Explanation
            OBVIOUS
        <2>1. Label(Ranked, "NOT_REQUESTED") = << >>
            BY DEF Label
        <2> QED
            BY <1>1, <2>1 DEF Conclusion
    <1> QED
        BY <1>3, <1>4

\* The result of an enumeration that is over, and the budget.
LEMMA DoneFacts ==
    ASSUME PlanInv, enum.phase = "done"
    PROVE  /\ enum.result.ok \in BOOLEAN
           /\ enum.result.paths \in Seq(Paths(view, Entries(snapshot, request, view), enum.options))
           /\ budget.exhausted => enum.result.failure = "WORK_BUDGET_EXHAUSTED"
           /\ enum.result.failure = "WORK_BUDGET_EXHAUSTED" =>
                /\ ~enum.result.ok /\ enum.result.limit /\ enum.result.paths = << >>
                /\ \/ 0 \in {budget.states, budget.pushes, budget.spurs}
                   \/ request.constraints.max_hops # Absent
    <1> DEFINE P == Paths(view, Entries(snapshot, request, view), enum.options)
               l == S.limits
    <1>1. QuestionInv
        BY DEF PlanInv
    <1>2. /\ enum \in EnumRecords(P, enum.options)
          /\ WorkInv(view, enum.options, l, enum, call, budget)
        BY <1>1 DEF QuestionInv, EnumInv
    <1>3. enum.options.max_hops = request.constraints.max_hops
        <2> DEFINE src == NodeOf(snapshot, request.source)
                   dst == NodeOf(snapshot, request.destination)
        <2>1. enum.options = Options(request, S.limits, src, dst)
            BY <1>1 DEF QuestionInv
        <2> QED
            BY <2>1, OptionFields
    <1> HIDE DEF P, l
    <1>4. enum.result \in ResultRecords(P)
        BY <1>2, EnumFields
    <1>5. enum.result.ok \in BOOLEAN /\ enum.result.paths \in Seq(P)
        BY <1>4 DEF ResultRecords
    <1>6. budget \in WorkBudgets(l)
        BY <1>2 DEF WorkInv
    <1>7. budget.exhausted => budget.states = 0 \/ budget.pushes = 0 \/ budget.spurs = 0
        BY <1>6 DEF WorkBudgets
    <1>8. /\ budget.exhausted => enum.result.failure = "WORK_BUDGET_EXHAUSTED"
          /\ enum.result.failure = "WORK_BUDGET_EXHAUSTED" =>
               /\ ~enum.result.ok /\ enum.result.limit /\ enum.result.paths = << >>
               /\ budget.exhausted \/ budget.spurs = 0 \/ enum.options.max_hops # Absent
        BY <1>2 DEF WorkInv, Waiting
    <1> QED
        BY <1>3, <1>5, <1>7, <1>8 DEF P

\* Nothing is ranked when the enumeration returned no path.
LEMMA NothingRanked ==
    ASSUME PlanInv, enum.phase = "done", enum.result.paths = << >>
    PROVE  Ranked = << >>
    <1> DEFINE E == Entries(snapshot, request, view)
               X == {p \in Range(enum.result.paths) : IsWellFormed(p) /\ RawPathIsSimple(p)}
    <1>1. ViewShape(view, E)
        BY PlanEnumGood DEF EnumGood, EnumContext
    <1>2. enum.result.paths \in Seq(PathSet(view, E))
        OBVIOUS
    <1> HIDE DEF E
    <1>3. Ranked \in Seq(X)
        BY <1>1, <1>2, RankedAreChecked
    <1>4. X = {}
        BY DEF Range
    <1> QED
        BY <1>3, <1>4

\* Conclude never answers with a part.
LEMMA ConcludeIsWhole ==
    ASSUME PlanInv, Conclude
    PROVE  NoPartialAnswer'
    <1> DEFINE code == "WORK_BUDGET_EXHAUSTED"
               failure == enum.result.failure
               spent == budget.exhausted \/ (enum.result.limit /\ failure = code)
    <1>1. /\ enum.phase = "done" /\ stage' = "done"
          /\ UNCHANGED <<view, budget, call, enum, request, snapshot>>
        BY DEF Conclude, searchVars
    <1>2. /\ enum.result.ok \in BOOLEAN
          /\ budget.exhausted => failure = code
          /\ failure = code =>
                /\ ~enum.result.ok /\ enum.result.limit /\ enum.result.paths = << >>
                /\ \/ 0 \in {budget.states, budget.pushes, budget.spurs}
                   \/ request.constraints.max_hops # Absent
        BY <1>1, DoneFacts
    <1>3. /\ Explanation.candidates = << >>
          /\ failure = code => Explanation.status = "RESOURCE_LIMIT" /\ Explanation.primary = code
          /\ failure # code => Explanation.primary # code
        BY <1>2, ExplanationSays
    <1>4. AnswerOf(result') /\ (Ranked = << >> => result' = Explanation)
        BY ConcludeAnswers
    <1>5. failure = code => result' = Explanation
        BY <1>1, <1>2, <1>4, NothingRanked
    <1>6. failure # code => result'.primary # code
        <2>1. \A k : failure # code => Conclusion(k).primary # code
            BY <1>3 DEF Conclusion, Answer, OK
        <2> QED
            BY <1>4, <2>1 DEF AnswerOf, Answer
    <1>7. spent <=> failure = code
        BY <1>2
    <1>8. /\ spent => /\ result'.status = "RESOURCE_LIMIT" /\ result'.primary = code
                      /\ result'.candidates = << >>
          /\ result'.primary = code =>
               spent /\ (0 \in {budget.states, budget.pushes, budget.spurs}
                          \/ request.constraints.max_hops # Absent)
        BY <1>2, <1>3, <1>5, <1>6, <1>7
    <1> QED
        BY <1>1, <1>8 DEF NoPartialAnswer, Searched, Answered

\* What is true of an answer stays true: nothing changes after it.
LEMMA OnlyTwoAnswer ==
    ASSUME PlanInv, [Next]_vars, stage' = "done"
    PROVE  \/ UNCHANGED vars
           \/ Conclude
           \/ enum'.phase = "idle" /\ result'.candidates = << >>
    <1>1. CASE CallBuilder \/ CallBuild \/ Enumerate
        BY <1>1 DEF CallBuilder, CallBuild, Enumerate
    <1>2. CASE \E r \in S.requests : Plan(r)
        <2>1. PlanInv'
            BY PlanStep
        <2>2. stage # "done"
            BY <1>2 DEF Plan
        <2>3. IdleInv' /\ (enum'.phase # "idle" => QuestionInv')
            BY <2>1 DEF PlanInv
        <2>4. enum' = enum \/ stage' = "search"
            BY <1>2 DEF Plan, Refuse
        <2>5. enum.phase = "idle"
            BY <1>2 DEF Plan, PlanInv, IdleInv
        <2> QED
            BY <2>3, <2>4, <2>5 DEF IdleInv
    <1>3. CASE Done
        BY <1>3 DEF Done
    <1> QED
        BY <1>1, <1>2, <1>3 DEF Next

\* A search that ran out of work is never passed off as an answer, and the budget is blamed
\* only when it was spent (search.cpp with Plan and the explanation in planner.cpp).
THEOREM NothingPartial == Spec => []NoPartialAnswer
    <1>1. Init => NoPartialAnswer
        BY DEF Init, NoPartialAnswer, Searched, Answered
    <1>2. PlanInv /\ NoPartialAnswer /\ [Next]_vars => NoPartialAnswer'
        <2> SUFFICES ASSUME PlanInv, NoPartialAnswer, [Next]_vars
                     PROVE  NoPartialAnswer'
            OBVIOUS
        <2>1. CASE ~Searched'
            BY <2>1 DEF NoPartialAnswer
        <2>2. CASE Conclude
            BY <2>2, ConcludeIsWhole
        <2>3. CASE UNCHANGED vars
            BY <2>3 DEF NoPartialAnswer, Searched, Answered, vars
        <2>4. Searched' => stage' = "done" /\ enum'.phase # "idle"
            BY DEF Searched, Answered
        <2> QED
            BY <2>1, <2>2, <2>3, <2>4, OnlyTwoAnswer
    <1> QED
        BY <1>1, <1>2, PlanIsSound, PTL DEF Spec

-----------------------------------------------------------------------------
(* The candidates of an answer.                                            *)

\* The answers of the authority as a filter of the candidates.
LEMMA VerdictTrace ==
    ASSUME NEW all, NEW mode, NEW n \in Nat, DOMAIN all = 1..n,
           NEW T, << >> \in T,
           \A t \in T, i \in 1..n : (IF Admits(mode, all[i]) THEN Append(t, all[i]) ELSE t) \in T
    PROVE  \E h \in [0..n -> T] :
             /\ h[0] = << >>
             /\ \A i \in 1..n :
                  h[i] = (IF Admits(mode, all[i]) THEN Append(h[i - 1], all[i]) ELSE h[i - 1])
             /\ h[n] = Admitted(mode, all)
    <1> DEFINE D == 1..n
               base == << >>
               list == all
               value == Admitted(mode, all)
               Op(kept, x) == (IF Admits(mode, x) THEN Append(kept, x) ELSE kept)
               Turn(it) == [s \in SUBSET D |->
                              IF s = {} THEN base ELSE Op(it[s \ {Max(s)}], list[Max(s)])]
               it == CHOOSE f : f = Turn(f)
               g == [x \in T \X D |-> Op(x[1], list[x[2]])]
    <1>1. value = it[D]
        BY DEF Admitted, Kept, FoldLeft, MapThenFoldSet
    <1> HIDE DEF value
    <1>2. base \in T /\ \A t \in T, i \in D : Op(t, list[i]) \in T
        OBVIOUS
    <1> HIDE DEF Op, base, list
    <1>3. g \in [T \X D -> T] /\ \A t \in T, i \in D : g[<<t, i>>] = Op(t, list[i])
        BY <1>2
    <1> HIDE DEF g
    <1>4. \E f : f = Turn(f)
        <2>1. PICK F : SolvesMaxFold(F, n, T, base, g)
            BY <1>2, <1>3, MaxFoldExists
        <2>2. F = Turn(F)
            BY <1>3, <2>1 DEF SolvesMaxFold
        <2> HIDE DEF Turn
        <2> QED
            BY <2>2
    <1>5. it = Turn(it)
        <2> HIDE DEF Turn
        <2> QED
            BY <1>4, Zenon
    <1> HIDE DEF it
    <1>6. it[{}] = base
        BY <1>5
    <1>7. \A s \in SUBSET D : s # {} => it[s] = Op(it[s \ {Max(s)}], list[Max(s)])
        BY <1>5
    <1>8. \E h : FoldTrace(h, n, T, base, g, it)
        <2>1. ASSUME NEW i \in D, NEW t \in T, it[1..(i - 1)] = t
              PROVE  it[1..i] = g[<<t, i>>]
            <3>1. /\ Max(1..i) = i /\ (1..i) \ {Max(1..i)} = 1..(i - 1)
                  /\ 1..i # {} /\ 1..i \in SUBSET D
                BY PrefixTurn
            <3>2. it[1..i] = Op(it[(1..i) \ {Max(1..i)}], list[Max(1..i)])
                BY <1>7, <3>1, Zenon
            <3> QED
                BY <1>3, <2>1, <3>1, <3>2, Zenon
        <2> QED
            BY <1>2, <1>3, <1>6, <2>1, MaxFoldValue
    <1>9. PICK h : FoldTrace(h, n, T, base, g, it)
        BY <1>8
    <1>10. h \in [0..n -> T] /\ h[0] = base /\ h[n] = it[1..n]
           /\ \A i \in 1..n : h[i] = g[<<h[i - 1], i>>]
        BY <1>9 DEF FoldTrace
    <1>11. \A i \in 1..n : h[i] = Op(h[i - 1], list[i])
        <2>1. \A i \in 1..n : i - 1 \in 0..n
            OBVIOUS
        <2>2. \A i \in 1..n : h[i] = Op(h[i - 1], list[i])
            BY <1>3, <1>10, <2>1
        <2> QED
            BY <2>2
    <1>12. \E x \in [0..n -> T] : /\ x[0] = base /\ x[n] = value
                                 /\ \A i \in 1..n : x[i] = Op(x[i - 1], list[i])
        BY <1>1, <1>10, <1>11
    <1> QED
        BY <1>12, Zenon DEF Op, base, list, value

\* A candidate for the path p that the authority did not reject.
CandidateFor(x, p, mode) ==
  /\ x.path = p
  /\ x.currentness = (IF view.provisional THEN "REVALIDATION_REQUIRED" ELSE "CURRENT")
  /\ x.authority # "REJECTED"
  /\ mode = "REQUIRED" => x.authority = "VALIDATED"

\* What the filter of the authority lets through.
LEMMA AdmittedIn ==
    ASSUME NEW K, NEW all, NEW mode, NEW n \in Nat, DOMAIN all = 1..n,
           \A i \in 1..n : Admits(mode, all[i]) => all[i] \in K
    PROVE  Admitted(mode, all) \in Seq(K)
    <1> DEFINE T == Seq(K)
    <1>1. << >> \in T
        OBVIOUS
    <1>2. \A t \in T, i \in 1..n : (IF Admits(mode, all[i]) THEN Append(t, all[i]) ELSE t) \in T
        <2> SUFFICES ASSUME NEW t \in T, NEW i \in 1..n, Admits(mode, all[i])
                     PROVE  Append(t, all[i]) \in T
            OBVIOUS
        <2>1. all[i] \in K
            OBVIOUS
        <2> QED
            BY <2>1
    <1> HIDE DEF T
    <1>3. Admitted(mode, all) \in T
        BY <1>1, <1>2, VerdictTrace
    <1> QED
        BY <1>3 DEF T

\* The authority lets through only what the mode of the request admits.
LEMMA AdmittedAre ==
    ASSUME NEW X, NEW paths \in Seq(X), NEW mode, NEW answer \in [DOMAIN paths -> Verdicts],
           NEW all, all = [i \in DOMAIN paths |-> Candidate(paths[i], answer[i])]
    PROVE  \A i \in DOMAIN Admitted(mode, all) :
             \E p \in X : CandidateFor(Admitted(mode, all)[i], p, mode)
    <1> DEFINE K == {x \in Range(all) : \E p \in X : CandidateFor(x, p, mode)}
               n == Len(paths)
    <1>1. n \in Nat /\ DOMAIN all = 1..n /\ DOMAIN paths = 1..n
        OBVIOUS
    <1>2. \A i \in 1..n : Admits(mode, all[i]) => all[i] \in K
        <2> SUFFICES ASSUME NEW i \in 1..n, Admits(mode, all[i])
                     PROVE  all[i] \in K
            OBVIOUS
        <2>1. all[i] = Candidate(paths[i], answer[i]) /\ paths[i] \in X
            BY <1>1
        <2>2. CandidateFor(all[i], paths[i], mode)
            BY <2>1 DEF CandidateFor, Candidate, Admits
        <2>3. all[i] \in Range(all)
            BY <1>1 DEF Range
        <2> QED
            BY <2>1, <2>2, <2>3
    <1> HIDE DEF K, n
    <1> DEFINE value == Admitted(mode, all)
    <1>5. value \in Seq(K)
        BY <1>1, <1>2, AdmittedIn
    <1> HIDE DEF value
    <1>6. \A i \in DOMAIN value : value[i] \in K
        BY <1>5
    <1> QED
        BY <1>6 DEF K, value

\* Every candidate of the answer is a path that the enumeration returned and the
\* last checks passed.
LEMMA CandidatesAre ==
    ASSUME PlanInv, Conclude
    PROVE  \A i \in DOMAIN result'.candidates :
             \E p \in Range(enum.result.paths) :
                /\ IsWellFormed(p) /\ RawPathIsSimple(p)
                /\ CandidateFor(result'.candidates[i], p, request.policy.authority_validation)
    <1> DEFINE mode == request.policy.authority_validation
               E == Entries(snapshot, request, view)
               X == {p \in Range(enum.result.paths) : IsWellFormed(p) /\ RawPathIsSimple(p)}
               Good(k) == \A i \in DOMAIN k : \E p \in X : CandidateFor(k[i], p, mode)
    <1>1. /\ enum.phase = "done"
          /\ IF mode = "NONE" \/ Ranked = << >>
             THEN result' = Conclusion(Label(Ranked, "NOT_REQUESTED"))
             ELSE IF S.authority THEN Consult(mode, Ranked)
             ELSE IF mode = "REQUIRED"
             THEN result' = Answer("UNSUPPORTED", "AUTHORITY_VALIDATION_UNAVAILABLE", << >>, FALSE)
             ELSE result' = Conclusion(Label(Ranked, "UNAVAILABLE"))
        BY DEF Conclude
    <1>2. Ranked \in Seq(X)
        <2>1. ViewShape(view, E)
            BY <1>1, PlanEnumGood DEF EnumGood, EnumContext
        <2>2. enum.result.paths \in Seq(Paths(view, E, enum.options))
            BY <1>1, DoneFacts
        <2>3. Paths(view, E, enum.options) \subseteq PathSet(view, E)
            BY DEF Paths
        <2> HIDE DEF E
        <2>4. enum.result.paths \in Seq(PathSet(view, E))
            BY <2>2, <2>3
        <2> QED
            BY <2>1, <2>4, RankedAreChecked
    <1> HIDE DEF X
    <1>3. Good(<< >>)
        OBVIOUS
    <1>4. \A k : Good(k) => Good(Conclusion(k).candidates)
        <2> SUFFICES ASSUME NEW k, Good(k)
                     PROVE  Good(Conclusion(k).candidates)
            OBVIOUS
        <2>1. Explanation.candidates = << >>
            BY DEF Explanation, Answer
        <2>2. Conclusion(k).candidates = << >> \/ Conclusion(k).candidates = k
            BY <2>1 DEF Conclusion, Answer
        <2> HIDE DEF Good
        <2> QED
            BY <1>3, <2>2
    <1>5. ASSUME NEW a, a # "REJECTED", mode # "REQUIRED" \/ Ranked = << >>
          PROVE  Good(Label(Ranked, a))
        <2> SUFFICES ASSUME NEW i \in DOMAIN Ranked
                     PROVE  \E p \in X : CandidateFor(Label(Ranked, a)[i], p, mode)
            BY DEF Label
        <2>1. Label(Ranked, a)[i] = Candidate(Ranked[i], a) /\ Ranked[i] \in X
            BY <1>2 DEF Label
        <2>2. mode # "REQUIRED"
            BY <1>5
        <2>3. CandidateFor(Label(Ranked, a)[i], Ranked[i], mode)
            BY <1>5, <2>1, <2>2 DEF CandidateFor, Candidate
        <2> QED
            BY <2>1, <2>3
    <1>6. Consult(mode, Ranked) => Good(result'.candidates)
        <2> SUFFICES ASSUME Consult(mode, Ranked)
                     PROVE  Good(result'.candidates)
            OBVIOUS
        <2>1. PICK answer \in [DOMAIN Ranked -> Verdicts] :
                LET kept == Admitted(mode, [i \in DOMAIN Ranked |-> Candidate(Ranked[i], answer[i])])
                IN  result' = IF kept = << >> /\ \E i \in DOMAIN answer : answer[i] = "REJECTED"
                              THEN Answer("REVALIDATION_REQUIRED", "AUTHORITY_VALIDATION_REJECTED",
                                          << >>, enum.result.truncated)
                              ELSE Conclusion(kept)
            BY DEF Consult
        <2> DEFINE list == Ranked
                   all == [i \in DOMAIN list |-> Candidate(list[i], answer[i])]
                   kept == Admitted(mode, all)
                   rejected == Answer("REVALIDATION_REQUIRED", "AUTHORITY_VALIDATION_REJECTED",
                                      << >>, enum.result.truncated)
        <2>2. result' = rejected \/ result' = Conclusion(kept)
            BY <2>1
        <2>3. rejected.candidates = << >>
            BY DEF Answer
        <2>4. Good(kept)
            <3>1. /\ list \in Seq(X) /\ answer \in [DOMAIN list -> Verdicts]
                  /\ all = [i \in DOMAIN list |-> Candidate(list[i], answer[i])]
                BY <1>2, <2>1
            <3> HIDE DEF list, all
            <3>2. \A i \in DOMAIN Admitted(mode, all) :
                     \E p \in X : CandidateFor(Admitted(mode, all)[i], p, mode)
                BY <3>1, AdmittedAre
            <3> QED
                BY <3>2
        <2> HIDE DEF kept, rejected, Good
        <2> QED
            BY <1>3, <1>4, <2>2, <2>3, <2>4
    <1>7. Good(result'.candidates)
        <2>1. CASE mode = "NONE" \/ Ranked = << >>
            <3>1. Good(Label(Ranked, "NOT_REQUESTED"))
                BY <1>5, <2>1
            <3> HIDE DEF Good
            <3> QED
                BY <1>1, <1>4, <2>1, <3>1
        <2>2. CASE ~(mode = "NONE" \/ Ranked = << >>) /\ S.authority
            BY <1>1, <1>6, <2>2
        <2>3. CASE ~(mode = "NONE" \/ Ranked = << >>) /\ ~S.authority /\ mode = "REQUIRED"
            <3>1. result'.candidates = << >>
                BY <1>1, <2>3 DEF Answer
            <3> QED
                BY <1>3, <3>1
        <2>4. CASE ~(mode = "NONE" \/ Ranked = << >>) /\ ~S.authority /\ mode # "REQUIRED"
            <3>1. Good(Label(Ranked, "UNAVAILABLE"))
                BY <1>5, <2>4
            <3> HIDE DEF Good
            <3> QED
                BY <1>1, <1>4, <2>4, <3>1
        <2> QED
            BY <2>1, <2>2, <2>3, <2>4
    <1> QED
        BY <1>7 DEF X

\* A link of a snapshot that the view keeps: every entry stands for one.
LEMMA HopIsUsable ==
    ASSUME PlanInv, enum.phase # "idle", NEW a \in Entries(snapshot, request, view)
    PROVE  \E e \in snapshot.edges :
              /\ a.link = e.id /\ a.from = e.from /\ a.to = e.to
              /\ UsableLink(snapshot, request, e)
    <1> DEFINE s == snapshot
               r == request
               V == view.nodes
    <1>1. PICK e \in s.edges : EdgeVerdict(s, r, V, e) = Eligible /\ a = Entry(s, r, e)
        BY DEF Entries
    <1>2. /\ SnapshotTyped(s) /\ Request(r) /\ s.ok
          /\ V = {id \in {x.id : x \in s.nodes} : EvaluateNode(s, r.constraints, id) = OK}
        BY PlanEnumGood DEF EligibleNodes, NodeIds
    <1>3. SnapshotCoherent
        BY DEF PlanInv, BuilderInv
    <1>4. e.from \in {x.id : x \in s.nodes} /\ e.to \in {x.id : x \in s.nodes}
        BY <1>2, <1>3 DEF SnapshotCoherent
    <1>5. e \in EdgeRecords
        BY <1>2 DEF SnapshotTyped
    <1> HIDE DEF s, r, V
    <1>6. a.link = e.id /\ a.from = e.from /\ a.to = e.to
        BY <1>1, <1>2, <1>5, EntryIsTyped
    <1>7. UsableLink(s, r, e)
        BY <1>1, <1>2, <1>4, EligibleIsUsable
    <1> QED
        BY <1>6, <1>7 DEF s, r

\* Two links of the snapshot with one identifier are the same link.
LEMMA LinkIsUnique ==
    ASSUME PlanInv, enum.phase # "idle", NEW e \in snapshot.edges, NEW f \in snapshot.edges,
           e.id = f.id
    PROVE  e = f
    <1>1. snapshot.ok
        BY PlanEnumGood
    <1>2. SnapshotCoherent
        BY DEF PlanInv, BuilderInv
    <1>3. \A field \in {"nodes", "edges", "endpoints"} :
            \A x, y \in snapshot[field] : x.id = y.id => x = y
        BY <1>1, <1>2 DEF SnapshotCoherent
    <1> QED
        BY <1>3

\* A path that the enumeration returned: its hops are entries of the view.
LEMMA ReturnedPath ==
    ASSUME PlanInv, enum.phase = "done", NEW p \in Range(enum.result.paths)
    PROVE  /\ p \in Paths(view, Entries(snapshot, request, view), enum.options)
           /\ p.nodes \in Seq(view.nodes) /\ p.hops \in Seq(Entries(snapshot, request, view))
           /\ Len(p.nodes) = Len(p.hops) + 1
           /\ enum.options.max_hops # Absent => Len(p.hops) <= enum.options.max_hops
           /\ \A j \in DOMAIN p.hops : p.hops[j] \in Entries(snapshot, request, view)
    <1> DEFINE E == Entries(snapshot, request, view)
               P == Paths(view, E, enum.options)
               s == enum.result.paths
    <1>1. s \in Seq(P)
        BY DoneFacts
    <1> HIDE DEF P
    <1>2. \A i \in DOMAIN s : s[i] \in P
        BY <1>1
    <1>3. p \in P
        BY <1>2 DEF Range
    <1> HIDE DEF E
    <1>4. p \in PathSet(view, E) /\ (enum.options.max_hops # Absent => Len(p.hops) <= enum.options.max_hops)
        BY <1>3 DEF P, Paths
    <1>5. p.nodes \in Seq(view.nodes) /\ p.hops \in Seq(E) /\ Len(p.nodes) = Len(p.hops) + 1
        BY <1>4 DEF PathSet
    <1>6. \A j \in DOMAIN p.hops : p.hops[j] \in E
        BY <1>5
    <1> QED
        BY <1>3, <1>4, <1>5, <1>6 DEF E, P

\* The states of a link that a request which asks for proof may use.
LEMMA UsableIsProven ==
    ASSUME NEW s, NEW r, NEW e, UsableLink(s, r, e), ~Provisional(r)
    PROVE  /\ LinkStateOf(s, e.id) \in CurrentLinkStates(r)
           /\ \A p \in {e.from_port, e.to_port} : PortStateOf(s, p) \in CurrentPortStates(r)
    <1>1. /\ LinkStateOf(s, e.id) \in UsableLinkStates(r)
          /\ \A p \in {e.from_port, e.to_port} : PortStateOf(s, p) \in UsablePortStates(r)
        BY DEF UsableLink
    <1>2. ~Diagnostic(r)
        BY DEF Provisional
    <1>3. UsableLinkStates(r) \subseteq CurrentLinkStates(r)
        BY <1>2 DEF UsableLinkStates, CurrentLinkStates
    <1>4. UsablePortStates(r) \subseteq CurrentPortStates(r)
        BY <1>2 DEF UsablePortStates, CurrentPortStates
    <1> QED
        BY <1>1, <1>3, <1>4

\* Conclude calls only proven candidates current.
LEMMA ConcludeIsProven ==
    ASSUME PlanInv, Conclude
    PROVE  CurrentIsProven'
    <1>1. /\ enum.phase = "done" /\ enum.phase # "idle"
          /\ snapshot' = snapshot /\ request' = request
        BY DEF Conclude
    <1> SUFFICES ASSUME NEW i \in DOMAIN result'.candidates,
                        result'.candidates[i].currentness = "CURRENT",
                        NEW e \in snapshot.edges,
                        NEW j \in DOMAIN result'.candidates[i].path.hops,
                        result'.candidates[i].path.hops[j].link = e.id
                 PROVE  /\ LinkStateOf(snapshot, e.id) \in CurrentLinkStates(request)
                        /\ \A p \in {e.from_port, e.to_port} :
                             PortStateOf(snapshot, p) \in CurrentPortStates(request)
        BY <1>1 DEF CurrentIsProven
    <1> DEFINE x == result'.candidates[i]
    <1>2. PICK p \in Range(enum.result.paths) :
            CandidateFor(x, p, request.policy.authority_validation)
        BY CandidatesAre
    <1>3. x.path = p /\ x.currentness = "CURRENT" /\ j \in DOMAIN p.hops /\ p.hops[j].link = e.id
        BY <1>2 DEF CandidateFor
    <1>4. ~view.provisional
        BY <1>2, <1>3 DEF CandidateFor
    <1>5. ~Provisional(request)
        BY <1>1, <1>4, PlanEnumGood
    <1>6. p.hops[j] \in Entries(snapshot, request, view)
        BY <1>1, <1>3, ReturnedPath
    <1>7. PICK f \in snapshot.edges : p.hops[j].link = f.id /\ UsableLink(snapshot, request, f)
        BY <1>1, <1>6, HopIsUsable
    <1>8. f = e
        BY <1>1, <1>3, <1>7, LinkIsUnique
    <1> QED
        BY <1>5, <1>7, <1>8, UsableIsProven

\* A candidate is called CURRENT only over links and ports whose published state is UP or
\* admitted by a flag of the policy: DEGRADED links, DRAINING and MAINTENANCE ports.  What
\* only a diagnostic or a provisional request may use never carries the label
\* (planning_view.cpp, provisional, against what the filter let in).
THEOREM CurrentMeansProven == Spec => []CurrentIsProven
    <1>1. Init => CurrentIsProven
        BY DEF Init, CurrentIsProven, Answered
    <1>2. PlanInv /\ CurrentIsProven /\ [Next]_vars => CurrentIsProven'
        <2> SUFFICES ASSUME PlanInv, CurrentIsProven, [Next]_vars
                     PROVE  CurrentIsProven'
            OBVIOUS
        <2>1. CASE ~Answered'
            BY <2>1 DEF CurrentIsProven
        <2>2. CASE Conclude
            BY <2>2, ConcludeIsProven
        <2>3. CASE UNCHANGED vars
            BY <2>3 DEF CurrentIsProven, Answered, vars
        <2>4. CASE result'.candidates = << >>
            <3>1. DOMAIN result'.candidates = {}
                BY <2>4
            <3> QED
                BY <3>1 DEF CurrentIsProven
        <2>5. Answered' => stage' = "done"
            BY DEF Answered
        <2> QED
            BY <2>1, <2>2, <2>3, <2>4, <2>5, OnlyTwoAnswer
    <1> QED
        BY <1>1, <1>2, PlanIsSound, PTL DEF Spec

-----------------------------------------------------------------------------
(* What a request asked for.                                               *)

\* CandidatesHonourRequest for one candidate.
Honours(s, r, x) ==
  LET c == r.constraints
      nodes == x.path.nodes
      edges == [j \in DOMAIN x.path.hops |->
                  CHOOSE e \in s.edges : e.id = x.path.hops[j].link]
      visits == [DOMAIN c.required_transit -> DOMAIN nodes]
  IN  /\ nodes[1] = NodeOf(s, r.source)
      /\ nodes[Len(nodes)] = NodeOf(s, r.destination)
      /\ ~HasDuplicate(nodes)
      /\ \A j \in DOMAIN edges : /\ UsableLink(s, r, edges[j])
                                 /\ edges[j].from = nodes[j] /\ edges[j].to = nodes[j + 1]
      /\ c.max_hops # Absent => Len(edges) <= c.max_hops
      /\ c.required_transit = << >> => WithinMemberLimit(s, c, edges)
      /\ \E at \in visits :
           /\ \A j \in DOMAIN at : nodes[at[j]] \in Range(c.required_transit[j].alternatives)
           /\ \A j, k \in DOMAIN at : j <= k => at[j] <= at[k]
      /\ x.authority # "REJECTED"
      /\ r.policy.authority_validation = "REQUIRED" => x.authority = "VALIDATED"

\* The property, candidate by candidate.
LEMMA HonouredIs ==
    CandidatesHonourRequest <=>
      (Answered => \A i \in DOMAIN result.candidates : Honours(snapshot, request, result.candidates[i]))
    BY DEF CandidatesHonourRequest, Honours

\* The member limit over the links of a path, from the limit over its entries.
LEMMA LimitIsKept ==
    ASSUME NEW s, NEW c, NEW p, NEW edges, NEW n \in Nat,
           c.max_members_per_failure_domain \in Nat \cup {Absent},
           DOMAIN p.hops = 1..n, DOMAIN edges = 1..n,
           \A j \in 1..n : edges[j].id = p.hops[j].link,
           c.max_members_per_failure_domain # Absent =>
             DomainMemberLimitCompliant(s, p, c.max_members_per_failure_domain,
                                        c.fail_closed_on_unknown_domains)
    PROVE  WithinMemberLimit(s, c, edges)
    <1> DEFINE limit == c.max_members_per_failure_domain
               m == [i \in DOMAIN edges |-> MembershipOf(s, ForLink(edges[i].id))]
               w == [i \in DOMAIN p.hops |-> MembershipOf(s, ForLink(p.hops[i].link))]
    <1> SUFFICES ASSUME limit # Absent
                 PROVE  /\ c.fail_closed_on_unknown_domains => \A i \in DOMAIN m : m[i].known
                        /\ \A d \in DOMAIN s.classes :
                             Cardinality({i \in DOMAIN m : d \in m[i].domains}) <= limit
        BY DEF WithinMemberLimit
    <1>1. m = w
        OBVIOUS
    <1>2. /\ c.fail_closed_on_unknown_domains => \A i \in DOMAIN w : w[i].known
          /\ \A d \in UNION {w[i].domains : i \in DOMAIN w} :
               Cardinality({i \in DOMAIN w : d \in w[i].domains}) <= limit
        BY DEF DomainMemberLimitCompliant
    <1>3. limit \in Nat
        OBVIOUS
    <1> HIDE DEF m, w, limit
    <1>4. ASSUME NEW d
          PROVE  Cardinality({i \in DOMAIN w : d \in w[i].domains}) <= limit
        <2>1. CASE d \in UNION {w[i].domains : i \in DOMAIN w}
            BY <1>2, <2>1
        <2>2. CASE d \notin UNION {w[i].domains : i \in DOMAIN w}
            <3>1. {i \in DOMAIN w : d \in w[i].domains} = {}
                BY <2>2
            <3>2. Cardinality({}) = 0
                BY FS_EmptySet
            <3>3. Cardinality({i \in DOMAIN w : d \in w[i].domains}) = 0
                BY <3>1, <3>2, Zenon
            <3> QED
                BY <1>3, <3>3
        <2> QED
            BY <2>1, <2>2
    <1> QED
        BY <1>1, <1>2, <1>4

\* A candidate made of a path of the enumeration honours the request.
LEMMA CandidateHonours ==
    ASSUME PlanInv, enum.phase = "done", NEW p \in Range(enum.result.paths),
           IsWellFormed(p), RawPathIsSimple(p),
           NEW x, CandidateFor(x, p, request.policy.authority_validation)
    PROVE  Honours(snapshot, request, x)
    <1> DEFINE s == snapshot
               r == request
               c == r.constraints
               o == enum.options
               n == Len(p.hops)
               nodes == p.nodes
               Named(j) == CHOOSE e \in s.edges : e.id = p.hops[j].link
               edges == [j \in DOMAIN p.hops |-> Named(j)]
    <1>1. enum.phase # "idle"
        OBVIOUS
    <1>2. /\ p.nodes \in Seq(view.nodes) /\ p.hops \in Seq(Entries(s, r, view))
          /\ Len(p.nodes) = Len(p.hops) + 1
          /\ o.max_hops # Absent => Len(p.hops) <= o.max_hops
          /\ \A j \in DOMAIN p.hops : p.hops[j] \in Entries(s, r, view)
        BY ReturnedPath
    <1>3. n \in Nat /\ DOMAIN p.hops = 1..n
        BY <1>2
    <1>4. ASSUME NEW j \in 1..n
          PROVE  /\ Named(j) \in s.edges /\ Named(j).id = p.hops[j].link
                 /\ Named(j).from = p.hops[j].from /\ Named(j).to = p.hops[j].to
                 /\ UsableLink(s, r, Named(j))
        <2>1. p.hops[j] \in Entries(s, r, view)
            BY <1>2, <1>3
        <2>2. PICK f \in s.edges : /\ p.hops[j].link = f.id /\ p.hops[j].from = f.from
                                   /\ p.hops[j].to = f.to /\ UsableLink(s, r, f)
            BY <1>1, <2>1, HopIsUsable
        <2>3. Named(j) \in s.edges /\ Named(j).id = p.hops[j].link
            BY <2>2, Zenon
        <2>4. Named(j) = f
            <3> HIDE DEF Named
            <3> QED
                BY <1>1, <2>2, <2>3, LinkIsUnique
        <2> HIDE DEF Named
        <2> QED
            BY <2>2, <2>3, <2>4
    <1> HIDE DEF Named
    <1>5. DOMAIN edges = 1..n /\ \A j \in 1..n : edges[j] = Named(j)
        BY <1>3
    <1>6. /\ o.source = NodeOf(s, r.source) /\ o.destination = NodeOf(s, r.destination)
          /\ o.max_hops = c.max_hops /\ o.stages = c.required_transit
          /\ o.member_limit = c.max_members_per_failure_domain
          /\ o.fail_closed = c.fail_closed_on_unknown_domains
        <2> DEFINE src == NodeOf(s, r.source)
                   dst == NodeOf(s, r.destination)
        <2>1. o = Options(r, S.limits, src, dst)
            BY <1>1 DEF PlanInv, QuestionInv
        <2> HIDE DEF src, dst
        <2>2. /\ o.source = src /\ o.destination = dst
              /\ o.max_hops = r.constraints.max_hops
              /\ o.stages = r.constraints.required_transit
              /\ o.member_limit = r.constraints.max_members_per_failure_domain
              /\ o.fail_closed = r.constraints.fail_closed_on_unknown_domains
            BY <2>1, OptionFields
        <2> QED
            BY <2>2 DEF src, dst
    <1>7. FoundInv(s, o, enum) /\ OptionsGood(view, o)
        BY <1>1, PlanEnumGood DEF EnumGood, EnumContext, EnumInv
    <1>8. nodes[1] = NodeOf(s, r.source) /\ nodes[Len(nodes)] = NodeOf(s, r.destination)
        BY <1>6 DEF IsWellFormed
    <1>9. ~HasDuplicate(nodes)
        BY DEF RawPathIsSimple
    <1>10. \A j \in DOMAIN edges : /\ UsableLink(s, r, edges[j])
                                   /\ edges[j].from = nodes[j] /\ edges[j].to = nodes[j + 1]
        <2>1. \A j \in DOMAIN p.hops : p.hops[j].from = p.nodes[j] /\ p.hops[j].to = p.nodes[j + 1]
            BY DEF IsWellFormed
        <2> HIDE DEF edges
        <2> QED
            BY <1>3, <1>4, <1>5, <2>1
    <1>11. c.max_hops # Absent => Len(edges) <= c.max_hops
        <2>1. Len(edges) = n
            <3> HIDE DEF n
            <3> QED
                BY <1>3, <1>5
        <2> QED
            BY <1>2, <1>6, <2>1
    <1>12. c.required_transit = << >> => WithinMemberLimit(s, c, edges)
        <2> SUFFICES ASSUME c.required_transit = << >>
                     PROVE  WithinMemberLimit(s, c, edges)
            OBVIOUS
        <2>1. c.max_members_per_failure_domain # Absent =>
                DomainMemberLimitCompliant(s, p, c.max_members_per_failure_domain,
                                           c.fail_closed_on_unknown_domains)
            BY <1>6, <1>7 DEF FoundInv
        <2>2. \A j \in 1..n : edges[j].id = p.hops[j].link
            BY <1>4, <1>5
        <2>3. c.max_members_per_failure_domain \in Nat \cup {Absent}
            BY <1>6, <1>7 DEF OptionsGood
        <2> HIDE DEF s, c, edges, n
        <2> QED
            BY <1>3, <1>5, <2>1, <2>2, <2>3, LimitIsKept
    <1>13. \E at \in [DOMAIN c.required_transit -> DOMAIN nodes] :
             /\ \A j \in DOMAIN at : nodes[at[j]] \in Range(c.required_transit[j].alternatives)
             /\ \A j, k \in DOMAIN at : j <= k => at[j] <= at[k]
        <2> DEFINE m == Len(o.stages)
        <2>1. Visits(p, o, m)
            BY <1>7 DEF FoundInv
        <2>2. DOMAIN o.stages = 1..m
            BY <1>7 DEF OptionsGood
        <2> HIDE DEF m
        <2>3. PICK at \in [1..m -> DOMAIN p.nodes] :
                /\ \A j \in 1..m : p.nodes[at[j]] \in Range(o.stages[j].alternatives)
                /\ \A j, k \in 1..m : j <= k => at[j] <= at[k]
            BY <2>1 DEF Visits
        <2> QED
            BY <1>6, <2>2, <2>3
    <1>14. /\ x.path = p /\ x.authority # "REJECTED"
           /\ r.policy.authority_validation = "REQUIRED" => x.authority = "VALIDATED"
        BY DEF CandidateFor
    <1> DEFINE Kept1(path, links) ==
                 /\ path.nodes[1] = NodeOf(s, r.source)
                 /\ path.nodes[Len(path.nodes)] = NodeOf(s, r.destination)
                 /\ ~HasDuplicate(path.nodes)
                 /\ \A j \in DOMAIN links :
                      /\ UsableLink(s, r, links[j])
                      /\ links[j].from = path.nodes[j] /\ links[j].to = path.nodes[j + 1]
                 /\ c.max_hops # Absent => Len(links) <= c.max_hops
                 /\ c.required_transit = << >> => WithinMemberLimit(s, c, links)
                 /\ \E at \in [DOMAIN c.required_transit -> DOMAIN path.nodes] :
                      /\ \A j \in DOMAIN at :
                           path.nodes[at[j]] \in Range(c.required_transit[j].alternatives)
                      /\ \A j, k \in DOMAIN at : j <= k => at[j] <= at[k]
               Found(path) == [j \in DOMAIN path.hops |->
                                 CHOOSE e \in s.edges : e.id = path.hops[j].link]
    <1>15. edges = Found(p)
        BY DEF Named
    <1>16. Kept1(x.path, Found(x.path)) => Honours(s, r, x)
        BY <1>14, Zenon DEF Honours
    <1> HIDE DEF edges, Found
    <1>17. Kept1(p, edges)
        BY <1>8, <1>9, <1>10, <1>11, <1>12, <1>13, Zenon
    <1> HIDE DEF Kept1
    <1> QED
        BY <1>14, <1>15, <1>16, <1>17

\* Every candidate keeps what the request asked for, in every mode: a simple path between
\* the two nodes over usable links, within max_hops, through the transit stages in order,
\* within the member limit, and accepted by the authority (search.cpp, planner.cpp).
THEOREM RequestsAreHonoured == Spec => []CandidatesHonourRequest
    <1>1. Init => CandidatesHonourRequest
        BY DEF Init, CandidatesHonourRequest, Answered
    <1>2. PlanInv /\ CandidatesHonourRequest /\ [Next]_vars => CandidatesHonourRequest'
        <2> SUFFICES ASSUME PlanInv, CandidatesHonourRequest, [Next]_vars
                     PROVE  CandidatesHonourRequest'
            OBVIOUS
        <2> SUFFICES ASSUME stage' = "done"
                     PROVE  \A i \in DOMAIN result'.candidates :
                              Honours(snapshot', request', result'.candidates[i])
            BY HonouredIs DEF CandidatesHonourRequest, Honours, Answered
        <2>1. CASE Conclude
            <3>1. enum.phase = "done" /\ snapshot' = snapshot /\ request' = request
                BY <2>1 DEF Conclude
            <3>2. \A i \in DOMAIN result'.candidates :
                    Honours(snapshot, request, result'.candidates[i])
                BY <2>1, <3>1, CandidatesAre, CandidateHonours
            <3> QED
                BY <3>1, <3>2
        <2>2. CASE UNCHANGED vars
            <3>1. /\ stage' = stage /\ result' = result /\ snapshot' = snapshot
                  /\ request' = request
                BY <2>2 DEF vars
            <3>2. \A i \in DOMAIN result.candidates :
                    Honours(snapshot, request, result.candidates[i])
                BY <3>1, HonouredIs DEF Answered
            <3> QED
                BY <3>1, <3>2
        <2>3. CASE result'.candidates = << >>
            BY <2>3
        <2> QED
            BY <2>1, <2>2, <2>3, OnlyTwoAnswer
    <1> QED
        BY <1>1, <1>2, PlanIsSound, PTL DEF Spec

-----------------------------------------------------------------------------
(* Every plan returns.                                                     *)

\* The counters that the measure is made of stay within their bounds.
Progress(o, e) ==
  /\ o.wanted \in Nat \ {0}
  /\ e.phase \in {"start", "firsting"} => e.accepted = << >>
  /\ Len(e.accepted) <= o.wanted
  /\ e.combination <= Product(Sizes(o))

\* The first part of the measure that differs is smaller afterwards.
LessLeft(e, c, f, d) ==
  \/ LoopsLeft(f)[1] < LoopsLeft(e)[1]
  \/ /\ LoopsLeft(f)[1] = LoopsLeft(e)[1]
     /\ \/ LoopsLeft(f)[2] < LoopsLeft(e)[2]
        \/ /\ LoopsLeft(f)[2] = LoopsLeft(e)[2]
           /\ \/ PhaseLeft(f) < PhaseLeft(e)
              \/ /\ PhaseLeft(f) = PhaseLeft(e)
                 /\ \/ SearchLeft(d)[1] < SearchLeft(c)[1]
                    \/ /\ SearchLeft(d)[1] = SearchLeft(c)[1]
                       /\ SearchLeft(d)[2] < SearchLeft(c)[2]

\* The parts of a concatenation of five numbers.
LEMMA FiveParts ==
    ASSUME NEW a, NEW b, NEW x, NEW y, NEW z, NEW w, w = <<a, b>> \o <<x>> \o <<y, z>>
    PROVE  /\ Len(w) = 5 /\ w[1] = a /\ w[2] = b /\ w[3] = x /\ w[4] = y /\ w[5] = z
    OBVIOUS

\* The parts of the measure.
LEMMA WorkParts ==
    ASSUME NEW e, NEW c
    PROVE  /\ Len(WorkLeft(e, c)) = 5
           /\ WorkLeft(e, c)[1] = LoopsLeft(e)[1] /\ WorkLeft(e, c)[2] = LoopsLeft(e)[2]
           /\ WorkLeft(e, c)[3] = PhaseLeft(e)
           /\ WorkLeft(e, c)[4] = SearchLeft(c)[1] /\ WorkLeft(e, c)[5] = SearchLeft(c)[2]
    <1>1. \E a, b : LoopsLeft(e) = <<a, b>>
        BY DEF LoopsLeft
    <1>2. \E a, b : SearchLeft(c) = <<a, b>>
        BY DEF SearchLeft
    <1>3. PICK a, b : LoopsLeft(e) = <<a, b>>
        BY <1>1
    <1>4. PICK y, z : SearchLeft(c) = <<y, z>>
        BY <1>2
    <1> DEFINE w == WorkLeft(e, c)
               x == PhaseLeft(e)
    <1>5. w = <<a, b>> \o <<x>> \o <<y, z>>
        BY <1>3, <1>4 DEF WorkLeft
    <1> HIDE DEF w, x
    <1>6. Len(w) = 5 /\ w[1] = a /\ w[2] = b /\ w[3] = x /\ w[4] = y /\ w[5] = z
        BY <1>5, FiveParts
    <1> QED
        BY <1>3, <1>4, <1>6 DEF w, x

\* The order is decided by the first place that differs.
LEMMA LexAt ==
    ASSUME NEW s, NEW t, Len(s) = 5, Len(t) = 5, NEW k \in 1..5, s[k] < t[k],
           \A j \in 1..(k - 1) : s[j] = t[j]
    PROVE  LexLess(s, t)
    <1>1. Min({Len(s), Len(t)}) = 5
        <2> DEFINE n == 5
        <2>1. n \in Nat /\ Len(s) = n /\ Len(t) = n
            OBVIOUS
        <2> HIDE DEF n
        <2>2. Min({n, n}) = n
            BY <2>1, MinOfTwo
        <2> QED
            BY <2>1, <2>2 DEF n
    <1>2. \E i \in 1..5 : s[i] < t[i] /\ \A j \in 1..(i - 1) : s[j] = t[j]
        OBVIOUS
    <1> QED
        BY <1>1, <1>2 DEF LexLess

\* So the measure is smaller in the lexicographic order.
LEMMA LessIsLex ==
    ASSUME NEW e, NEW c, NEW f, NEW d, LessLeft(e, c, f, d)
    PROVE  LexLess(WorkLeft(f, d), WorkLeft(e, c))
    <1> DEFINE s == WorkLeft(f, d)
               t == WorkLeft(e, c)
    <1>1. /\ Len(s) = 5 /\ s[1] = LoopsLeft(f)[1] /\ s[2] = LoopsLeft(f)[2]
          /\ s[3] = PhaseLeft(f) /\ s[4] = SearchLeft(d)[1] /\ s[5] = SearchLeft(d)[2]
        BY WorkParts
    <1>2. /\ Len(t) = 5 /\ t[1] = LoopsLeft(e)[1] /\ t[2] = LoopsLeft(e)[2]
          /\ t[3] = PhaseLeft(e) /\ t[4] = SearchLeft(c)[1] /\ t[5] = SearchLeft(c)[2]
        BY WorkParts
    <1> HIDE DEF s, t
    <1>3. \/ s[1] < t[1]
          \/ s[1] = t[1] /\ s[2] < t[2]
          \/ s[1] = t[1] /\ s[2] = t[2] /\ s[3] < t[3]
          \/ s[1] = t[1] /\ s[2] = t[2] /\ s[3] = t[3] /\ s[4] < t[4]
          \/ s[1] = t[1] /\ s[2] = t[2] /\ s[3] = t[3] /\ s[4] = t[4] /\ s[5] < t[5]
        BY <1>1, <1>2 DEF LessLeft
    <1>4. /\ \A j \in 1..(1 - 1) : FALSE
          /\ \A j \in 1..(2 - 1) : j = 1
          /\ \A j \in 1..(3 - 1) : j = 1 \/ j = 2
          /\ \A j \in 1..(4 - 1) : j = 1 \/ j = 2 \/ j = 3
          /\ \A j \in 1..(5 - 1) : j = 1 \/ j = 2 \/ j = 3 \/ j = 4
        OBVIOUS
    <1>5. \E k \in 1..5 : s[k] < t[k] /\ \A j \in 1..(k - 1) : s[j] = t[j]
        <2>1. CASE s[1] < t[1]
            BY <1>4, <2>1
        <2>2. CASE s[1] = t[1] /\ s[2] < t[2]
            BY <1>4, <2>2
        <2>3. CASE s[1] = t[1] /\ s[2] = t[2] /\ s[3] < t[3]
            BY <1>4, <2>3
        <2>4. CASE s[1] = t[1] /\ s[2] = t[2] /\ s[3] = t[3] /\ s[4] < t[4]
            BY <1>4, <2>4
        <2>5. CASE s[1] = t[1] /\ s[2] = t[2] /\ s[3] = t[3] /\ s[4] = t[4] /\ s[5] < t[5]
            BY <1>4, <2>5
        <2> QED
            BY <1>3, <2>1, <2>2, <2>3, <2>4, <2>5
    <1>6. LexLess(s, t)
        BY <1>1, <1>2, <1>5, LexAt
    <1> QED
        BY <1>6 DEF s, t

\* The loops of an enumeration, in its three cases.
LEMMA LoopsDone ==
    ASSUME NEW e, e.phase = "done"
    PROVE  LoopsLeft(e)[1] = 0
    BY DEF LoopsLeft

\* without stages,
LEMMA LoopsPlain ==
    ASSUME NEW e, NEW o, e.options = o, e.phase # "done", o.stages = << >>
    PROVE  /\ LoopsLeft(e)[1] = o.wanted - Len(e.accepted) + 1
           /\ e.accepted = << >> => LoopsLeft(e)[2] = 0
           /\ e.accepted # << >> =>
                LoopsLeft(e)[2] = Len(e.accepted[Len(e.accepted)].hops) - e.spur
    BY DEF LoopsLeft

\* and with them.
LEMMA LoopsStaged ==
    ASSUME NEW e, NEW o, e.options = o, e.phase # "done", o.stages # << >>
    PROVE  /\ LoopsLeft(e)[1] = Product(Sizes(o)) - e.combination + 1
           /\ e.phase \in {"start", "combination"} => LoopsLeft(e)[2] = Len(o.stages) + 2
           /\ e.phase \notin {"start", "combination"} =>
                LoopsLeft(e)[2] = Len(o.stages) + 1 - e.stage
    BY DEF LoopsLeft, Sizes

\* The number of combinations is a number.
LEMMA ProductIsNatural ==
    ASSUME NEW v, NEW o, OptionsGood(v, o)
    PROVE  Product(Sizes(o)) \in Nat /\ Len(o.stages) \in Nat
    <1> DEFINE sizes == Sizes(o)
               n == Len(o.stages)
               T == Nat
    <1>1. n \in Nat /\ DOMAIN sizes = 1..n /\ DOMAIN o.stages = 1..n
        BY DEF OptionsGood, Sizes
    <1>2. \A i \in 1..n : sizes[i] \in Nat
        <2> SUFFICES ASSUME NEW i \in 1..n
                     PROVE  sizes[i] \in Nat
            OBVIOUS
        <2>1. o.stages[i] \in Range(o.stages)
            BY <1>1 DEF Range
        <2>2. o.stages[i].alternatives \in Seq(Nat)
            BY <2>1 DEF OptionsGood
        <2>3. sizes[i] = Len(o.stages[i].alternatives)
            BY <1>1 DEF Sizes
        <2> QED
            BY <2>2, <2>3
    <1> HIDE DEF sizes, n
    <1>3. 1 \in T /\ \A t \in T, i \in 1..n : t * sizes[i] \in T
        BY <1>2
    <1> HIDE DEF T
    <1>4. PICK h : ProductSteps(h, n, T, sizes)
        BY <1>1, <1>3, ProductTrace
    <1>5. h \in [0..n -> T] /\ h[n] = Product(sizes) /\ n \in 0..n
        BY <1>1, <1>4 DEF ProductSteps
    <1> QED
        BY <1>1, <1>5 DEF sizes, n, T

\* While an enumeration goes on, there is a path or a combination to go.
LEMMA LoopsPositive ==
    ASSUME NEW E, NEW o, NEW l, EnumGood(E, o, l), Progress(o, enum), enum.phase # "done"
    PROVE  LoopsLeft(enum)[1] > 0
    <1>1. /\ enum.options = o /\ Product(Sizes(o)) \in Nat /\ enum.combination \in Nat
          /\ enum.accepted \in Seq(Paths(view, E, o))
        BY EnumFacts, EnumFields, ProductIsNatural
    <1>2. Len(enum.accepted) \in Nat
        BY <1>1
    <1>3. CASE o.stages = << >>
        <2>1. LoopsLeft(enum)[1] = o.wanted - Len(enum.accepted) + 1
            BY <1>1, <1>3, LoopsPlain
        <2> QED
            BY <1>2, <2>1 DEF Progress
    <1>4. CASE o.stages # << >>
        <2>1. LoopsLeft(enum)[1] = Product(Sizes(o)) - enum.combination + 1
            BY <1>1, <1>4, LoopsStaged
        <2> QED
            BY <1>1, <2>1 DEF Progress
    <1> QED
        BY <1>3, <1>4

\* The step of an enumeration makes progress.
Shrinks(o) == Progress(o, enum') /\ LessLeft(enum, call, enum', call')

\* An enumeration that ends leaves nothing to do.
LEMMA EndShrinks ==
    ASSUME NEW E, NEW o, NEW l, EnumGood(E, o, l), Progress(o, enum), enum.phase # "done",
           NEW r, enum' = [enum EXCEPT !.phase = "done", !.result = r]
    PROVE  Shrinks(o)
    <1>1. enum \in EnumRecords(Paths(view, E, o), o)
        BY EnumFacts
    <1>2. /\ enum'.phase = "done" /\ enum'.accepted = enum.accepted
          /\ enum'.combination = enum.combination
        BY <1>1 DEF EnumRecords
    <1>3. Progress(o, enum')
        BY <1>2 DEF Progress
    <1>4. LoopsLeft(enum')[1] = 0 /\ LoopsLeft(enum)[1] > 0
        BY <1>2, LoopsDone, LoopsPositive
    <1>5. LoopsLeft(enum')[1] < LoopsLeft(enum)[1]
        <2> DEFINE n == LoopsLeft(enum)[1]
        <2> HIDE DEF n
        <2>1. n > 0 => 0 < n
            OBVIOUS
        <2> QED
            BY <1>4, <2>1 DEF n
    <1> QED
        BY <1>3, <1>5 DEF Shrinks, LessLeft

\* The next combination is one combination less to go.
LEMMA NextShrinks ==
    ASSUME NEW E, NEW o, NEW l, EnumGood(E, o, l), Progress(o, enum),
           enum.phase \in {"leg", "legging", "finaling"},
           NEW failure, NEW best, NextCombination(failure, best)
    PROVE  Shrinks(o)
    <1> DEFINE P == Paths(view, E, o)
               m == enum.combination + 1
    <1>1. enum \in EnumRecords(P, o) /\ enum.options = o /\ LegInv(P, o, enum, call)
          /\ OptionsGood(view, o) /\ enum.combination \in Nat
        BY EnumFacts, EnumFields
    <1>2. enum' = [enum EXCEPT !.phase = "combination", !.combination = @ + 1,
                               !.leg_failure = failure, !.best = best]
        BY DEF NextCombination, Goto
    <1>3. /\ enum'.phase = "combination" /\ enum'.combination = enum.combination + 1
          /\ enum'.options = o /\ enum'.accepted = enum.accepted
        BY <1>1, <1>2 DEF EnumRecords
    <1>4. enum.combination < Product(Sizes(o)) /\ o.stages # << >>
        BY <1>1 DEF LegInv
    <1>5. Product(Sizes(o)) \in Nat
        BY <1>1, ProductIsNatural
    <1>6. Progress(o, enum')
        BY <1>1, <1>3, <1>4, <1>5 DEF Progress
    <1>7. /\ LoopsLeft(enum)[1] = Product(Sizes(o)) - enum.combination + 1
          /\ LoopsLeft(enum')[1] = Product(Sizes(o)) - enum'.combination + 1
        BY <1>1, <1>3, <1>4, LoopsStaged
    <1>8. LoopsLeft(enum')[1] < LoopsLeft(enum)[1]
        BY <1>1, <1>3, <1>5, <1>7
    <1> QED
        BY <1>6, <1>8 DEF Shrinks, LessLeft

\* Leaving a phase for its search is progress.
LEMMA PhaseLess ==
    ASSUME NEW e, NEW c, NEW f, NEW d,
           LoopsLeft(f)[1] = LoopsLeft(e)[1], LoopsLeft(f)[2] = LoopsLeft(e)[2],
           \/ e.phase = "start" /\ f.phase # "start"
           \/ e.phase \in {"spur", "combination", "leg"} /\ f.phase \in Waiting
    PROVE  LessLeft(e, c, f, d)
    <1>1. PhaseLeft(f) < PhaseLeft(e)
        BY DEF PhaseLeft, Waiting
    <1> QED
        BY <1>1 DEF LessLeft

\* The first step of an enumeration leaves less to do.
LEMMA StartShrinks ==
    ASSUME NEW E, NEW o, NEW l, EnumGood(E, o, l), Progress(o, enum), EnumStart
    PROVE  Shrinks(o)
    <1>1. enum \in EnumRecords(Paths(view, E, o), o) /\ enum.options = o /\ OptionsGood(view, o)
        BY EnumFacts
    <1>2. enum.phase = "start" /\ enum.phase # "done"
        BY DEF EnumStart
    <1>3. \/ o.stages = << >> /\ enum' = [enum EXCEPT !.phase = "firsting"]
          \/ \E r : enum' = [enum EXCEPT !.phase = "done", !.result = r]
          \/ o.stages # << >> /\ enum' = [enum EXCEPT !.phase = "combination"]
        BY <1>1 DEF EnumStart, Search, Fail, FailLimit, Finish, Goto
    <1>4. CASE o.stages = << >> /\ enum' = [enum EXCEPT !.phase = "firsting"]
        <2>1. /\ enum'.phase = "firsting" /\ enum'.options = o /\ enum'.accepted = enum.accepted
              /\ enum'.combination = enum.combination
            BY <1>1, <1>4 DEF EnumRecords
        <2>2. enum.accepted = << >>
            BY <1>2 DEF Progress
        <2>3. Progress(o, enum')
            BY <2>1, <2>2 DEF Progress
        <2>4. /\ LoopsLeft(enum)[1] = o.wanted - Len(enum.accepted) + 1 /\ LoopsLeft(enum)[2] = 0
              /\ LoopsLeft(enum')[1] = o.wanted - Len(enum'.accepted) + 1 /\ LoopsLeft(enum')[2] = 0
            BY <1>1, <1>2, <1>4, <2>1, <2>2, LoopsPlain
        <2>5. LessLeft(enum, call, enum', call')
            BY <1>2, <2>1, <2>4, PhaseLess
        <2> QED
            BY <2>3, <2>5 DEF Shrinks
    <1>5. CASE \E r : enum' = [enum EXCEPT !.phase = "done", !.result = r]
        BY <1>2, <1>5, EndShrinks
    <1>6. CASE o.stages # << >> /\ enum' = [enum EXCEPT !.phase = "combination"]
        <2>1. /\ enum'.phase = "combination" /\ enum'.options = o /\ enum'.accepted = enum.accepted
              /\ enum'.combination = enum.combination
            BY <1>1, <1>6 DEF EnumRecords
        <2>2. Progress(o, enum')
            BY <2>1 DEF Progress
        <2>3. /\ LoopsLeft(enum)[1] = Product(Sizes(o)) - enum.combination + 1
              /\ LoopsLeft(enum)[2] = Len(o.stages) + 2
              /\ LoopsLeft(enum')[1] = Product(Sizes(o)) - enum'.combination + 1
              /\ LoopsLeft(enum')[2] = Len(o.stages) + 2
            BY <1>1, <1>2, <1>6, <2>1, LoopsStaged
        <2>4. LessLeft(enum, call, enum', call')
            BY <1>2, <2>1, <2>3, PhaseLess
        <2> QED
            BY <2>2, <2>4 DEF Shrinks
    <1> QED
        BY <1>3, <1>4, <1>5, <1>6

\* A turn of a search settles a label or takes an entry off the queue.
LEMMA PopShrinks ==
    ASSUME NEW E, NEW o, NEW l, EnumGood(E, o, l), Progress(o, enum), Pop
    PROVE  Shrinks(o)
    <1> DEFINE c == call
               d == call'
               K == KeysOf(view, call)
    <1>1. enum' = enum /\ call.status = "running" /\ call.queue # {}
        BY DEF Pop
    <1>2. PopOutcome(view, call, call', budget', l)
        BY PopInv
    <1>3. ViewShape(view, E) /\ WorkInv(view, o, l, enum, call, budget)
        BY EnumFacts
    <1>4. RunInv(view, c)
        BY <1>1, <1>3 DEF WorkInv, Idle, CallGood
    <1>5. /\ d.status = "running" => RunInv(view, d)
          /\ d.status \in {"running", "limit"} /\ LoopShrinks(view, c, d)
        BY <1>2 DEF PopOutcome
    <1>6. /\ IsFiniteSet(K) /\ DOMAIN c.dist = K /\ c.settled \in SUBSET K /\ IsFiniteSet(c.queue)
        BY <1>3, <1>4, KeysFinite DEF RunInv, CallRecords
    <1>7. KeysOf(view, d) = K
        BY <1>5 DEF LoopShrinks
    <1> HIDE DEF K
    <1>8. /\ IsFiniteSet(c.settled) /\ Cardinality(c.settled) \in Nat /\ Cardinality(K) \in Nat
          /\ Cardinality(c.settled) <= Cardinality(K) /\ Cardinality(c.queue) \in Nat
          /\ Cardinality(c.queue) # 0
        BY <1>1, <1>6, FS_Subset, FS_CardinalityType, FS_EmptySet
    <1>9. SearchLeft(c)[1] = Cardinality(K) - Cardinality(c.settled)
          /\ SearchLeft(c)[2] = Cardinality(c.queue)
        BY <1>1, <1>6 DEF SearchLeft
    <1> DEFINE Less == \/ SearchLeft(d)[1] < SearchLeft(c)[1]
                       \/ /\ SearchLeft(d)[1] = SearchLeft(c)[1]
                          /\ SearchLeft(d)[2] < SearchLeft(c)[2]
               n == Cardinality(K) - Cardinality(c.settled)
               m == Cardinality(c.queue)
               sets == c.settled
               queue == c.queue
    <1>10. /\ n \in Nat /\ m \in Nat \ {0} /\ SearchLeft(c)[1] = n /\ SearchLeft(c)[2] = m
           /\ n = Cardinality(K) - Cardinality(sets) /\ m = Cardinality(queue)
           /\ IsFiniteSet(sets) /\ IsFiniteSet(queue) /\ Cardinality(sets) \in Nat
           /\ Cardinality(K) \in Nat
        BY <1>6, <1>8, <1>9
    <1>11. \/ KeysOf(view, d) = KeysOf(view, c) /\ d.status = "limit"
           \/ d.settled = sets /\ \E q \in queue : d.queue = queue \ {q}
           \/ \E k \in K \ sets : d.settled = sets \cup {k}
           \/ d.status = "limit"
        BY <1>5 DEF LoopShrinks, K
    <1>12. d.status = "running" => DOMAIN d.dist = K
        BY <1>3, <1>5, <1>7, KeysFinite
    <1> HIDE DEF c, d, n, m, sets, queue
    <1>13. ASSUME d.status = "limit"
           PROVE  Less
        <2>1. SearchLeft(d)[1] = 0 /\ SearchLeft(d)[2] = 0
            BY <1>13 DEF SearchLeft
        <2> QED
            BY <1>10, <2>1
    <1>14. ASSUME d.status = "running"
           PROVE  Less
        <2>1. /\ SearchLeft(d)[1] = Cardinality(K) - Cardinality(d.settled)
              /\ SearchLeft(d)[2] = Cardinality(d.queue)
            BY <1>12, <1>14 DEF SearchLeft
        <2>2. ASSUME d.settled = sets, \E q \in queue : d.queue = queue \ {q}
              PROVE  Less
            <3>1. PICK q \in queue : d.queue = queue \ {q}
                BY <2>2
            <3>2. Cardinality(queue \ {q}) = Cardinality(queue) - 1
                BY <1>10, FS_RemoveElement
            <3> QED
                BY <1>10, <2>1, <2>2, <3>1, <3>2
        <2>3. ASSUME \E k \in K \ sets : d.settled = sets \cup {k}
              PROVE  Less
            <3>1. PICK k \in K \ sets : d.settled = sets \cup {k}
                BY <2>3
            <3>2. Cardinality(sets \cup {k}) = Cardinality(sets) + 1
                BY <1>10, FS_AddElement
            <3> QED
                BY <1>10, <2>1, <3>1, <3>2
        <2> QED
            BY <1>11, <1>14, <2>2, <2>3
    <1>15. Less
        BY <1>5, <1>13, <1>14 DEF d
    <1>16. LessLeft(enum, c, enum, d)
        BY <1>15 DEF LessLeft
    <1> QED
        BY <1>1, <1>16 DEF Shrinks, c, d

\* The first path is one path less to go.
LEMMA FirstShrinks ==
    ASSUME NEW E, NEW o, NEW l, EnumGood(E, o, l), Progress(o, enum), First
    PROVE  Shrinks(o)
    <1>1. enum \in EnumRecords(Paths(view, E, o), o) /\ enum.options = o /\ YenInv(o, enum, call)
        BY EnumFacts
    <1>2. enum.phase = "firsting" /\ enum.phase # "done"
        BY DEF First
    <1>3. \/ \E r : enum' = [enum EXCEPT !.phase = "done", !.result = r]
          \/ \E p : enum' = [enum EXCEPT !.phase = "spur", !.accepted = <<p>>]
        BY DEF First, Fail, FailLimit, Finish, Goto
    <1>4. CASE \E r : enum' = [enum EXCEPT !.phase = "done", !.result = r]
        BY <1>2, <1>4, EndShrinks
    <1>5. CASE \E p : enum' = [enum EXCEPT !.phase = "spur", !.accepted = <<p>>]
        <2>1. PICK p : enum' = [enum EXCEPT !.phase = "spur", !.accepted = <<p>>]
            BY <1>5
        <2>2. /\ enum'.phase = "spur" /\ enum'.options = o /\ enum'.accepted = <<p>>
              /\ enum'.combination = enum.combination
            BY <1>1, <2>1 DEF EnumRecords
        <2>3. Len(enum'.accepted) = 1 /\ enum.accepted = << >> /\ Len(enum.accepted) = 0
            BY <1>2, <2>2 DEF Progress
        <2>4. Progress(o, enum')
            BY <2>2, <2>3 DEF Progress
        <2>5. o.stages = << >>
            BY <1>1, <1>2 DEF YenInv
        <2>6. /\ LoopsLeft(enum)[1] = o.wanted - Len(enum.accepted) + 1
              /\ LoopsLeft(enum')[1] = o.wanted - Len(enum'.accepted) + 1
            BY <1>1, <1>2, <2>2, <2>5, LoopsPlain
        <2>7. LoopsLeft(enum')[1] < LoopsLeft(enum)[1]
            BY <2>3, <2>6 DEF Progress
        <2> QED
            BY <2>4, <2>7 DEF Shrinks, LessLeft
    <1> QED
        BY <1>3, <1>4, <1>5

\* The spur loop searches, accepts a path, or ends.
LEMMA SpurShrinks ==
    ASSUME NEW E, NEW o, NEW l, EnumGood(E, o, l), Progress(o, enum), Spur
    PROVE  Shrinks(o)
    <1> DEFINE P == Paths(view, E, o)
               a == enum.accepted
    <1>1. /\ enum \in EnumRecords(P, o) /\ enum.options = o /\ YenInv(o, enum, call)
          /\ a \in Seq(P)
        BY EnumFacts, EnumFields
    <1>2. enum.phase = "spur" /\ enum.phase # "done"
        BY DEF Spur
    <1>3. o.stages = << >> /\ a # << >>
        BY <1>1, <1>2 DEF YenInv
    <1>4. \/ \E r : enum' = [enum EXCEPT !.phase = "done", !.result = r]
          \/ enum' = [enum EXCEPT !.phase = "spurring"]
          \/ /\ ~(Len(a) >= o.wanted)
             /\ \E p, rest : enum' = [enum EXCEPT !.accepted = Append(@, p),
                                                  !.pending = rest, !.spur = 0]
        BY <1>1 DEF Spur, OutOfSpurs, Search, Finish, Goto
    <1>5. CASE \E r : enum' = [enum EXCEPT !.phase = "done", !.result = r]
        BY <1>2, <1>5, EndShrinks
    <1>6. CASE enum' = [enum EXCEPT !.phase = "spurring"]
        <2>1. /\ enum'.phase = "spurring" /\ enum'.options = o /\ enum'.accepted = a
              /\ enum'.combination = enum.combination /\ enum'.spur = enum.spur
            BY <1>1, <1>6 DEF EnumRecords
        <2>2. Progress(o, enum')
            BY <2>1 DEF Progress
        <2>3. /\ LoopsLeft(enum)[1] = o.wanted - Len(a) + 1
              /\ LoopsLeft(enum)[2] = Len(a[Len(a)].hops) - enum.spur
              /\ LoopsLeft(enum')[1] = o.wanted - Len(enum'.accepted) + 1
              /\ LoopsLeft(enum')[2] = Len(enum'.accepted[Len(enum'.accepted)].hops) - enum'.spur
            BY <1>1, <1>2, <1>3, <2>1, LoopsPlain
        <2>4. /\ LoopsLeft(enum')[1] = LoopsLeft(enum)[1] /\ LoopsLeft(enum')[2] = LoopsLeft(enum)[2]
              /\ enum'.phase \in Waiting
            BY <2>1, <2>3 DEF Waiting
        <2>5. LessLeft(enum, call, enum', call')
            BY <1>2, <2>4, PhaseLess
        <2> QED
            BY <2>2, <2>5 DEF Shrinks
    <1>7. CASE /\ ~(Len(a) >= o.wanted)
               /\ \E p, rest : enum' = [enum EXCEPT !.accepted = Append(@, p),
                                                    !.pending = rest, !.spur = 0]
        <2>1. PICK p, rest : enum' = [enum EXCEPT !.accepted = Append(@, p),
                                                  !.pending = rest, !.spur = 0]
            BY <1>7
        <2>2. /\ enum'.phase = "spur" /\ enum'.options = o /\ enum'.accepted = Append(a, p)
              /\ enum'.combination = enum.combination
            BY <1>1, <1>2, <2>1 DEF EnumRecords
        <2>3. Len(a) \in Nat /\ Len(Append(a, p)) = Len(a) + 1
            BY <1>1
        <2> HIDE DEF a
        <2>4. Progress(o, enum')
            BY <1>7, <2>2, <2>3 DEF Progress
        <2>5. /\ LoopsLeft(enum)[1] = o.wanted - Len(a) + 1
              /\ LoopsLeft(enum')[1] = o.wanted - Len(enum'.accepted) + 1
            BY <1>1, <1>2, <1>3, <2>2, LoopsPlain DEF a
        <2>6. LoopsLeft(enum')[1] < LoopsLeft(enum)[1]
            BY <2>2, <2>3, <2>5 DEF Progress
        <2> QED
            BY <2>4, <2>6 DEF Shrinks, LessLeft
    <1> QED
        BY <1>4, <1>5, <1>6, <1>7

\* A spur node that was searched is one less to go.
LEMMA SpurFoundShrinks ==
    ASSUME NEW E, NEW o, NEW l, EnumGood(E, o, l), Progress(o, enum), SpurFound
    PROVE  Shrinks(o)
    <1> DEFINE P == Paths(view, E, o)
               a == enum.accepted
    <1>1. enum \in EnumRecords(P, o) /\ enum.options = o /\ YenInv(o, enum, call)
        BY EnumFacts
    <1>2. enum.phase = "spurring" /\ enum.phase # "done"
        BY DEF SpurFound
    <1>3. o.stages = << >> /\ a # << >>
        BY <1>1, <1>2 DEF YenInv
    <1>4. Len(a[Len(a)].hops) \in Nat /\ enum.spur \in Nat
        BY <1>2, LastAccepted
    <1>5. \/ \E r : enum' = [enum EXCEPT !.phase = "done", !.result = r]
          \/ \E rest : enum' = [enum EXCEPT !.phase = "spur", !.spur = @ + 1, !.pending = rest]
        BY DEF SpurFound, FailLimit, Finish, Goto
    <1>6. CASE \E r : enum' = [enum EXCEPT !.phase = "done", !.result = r]
        BY <1>2, <1>6, EndShrinks
    <1>7. CASE \E rest : enum' = [enum EXCEPT !.phase = "spur", !.spur = @ + 1, !.pending = rest]
        <2>1. /\ enum'.phase = "spur" /\ enum'.options = o /\ enum'.accepted = a
              /\ enum'.combination = enum.combination /\ enum'.spur = enum.spur + 1
            BY <1>1, <1>7 DEF EnumRecords
        <2>2. Progress(o, enum')
            BY <2>1 DEF Progress
        <2>3. /\ LoopsLeft(enum)[1] = o.wanted - Len(a) + 1
              /\ LoopsLeft(enum)[2] = Len(a[Len(a)].hops) - enum.spur
              /\ LoopsLeft(enum')[1] = o.wanted - Len(enum'.accepted) + 1
              /\ LoopsLeft(enum')[2] = Len(enum'.accepted[Len(enum'.accepted)].hops) - enum'.spur
            BY <1>1, <1>2, <1>3, <2>1, LoopsPlain
        <2>4. /\ LoopsLeft(enum')[1] = LoopsLeft(enum)[1] /\ LoopsLeft(enum')[2] < LoopsLeft(enum)[2]
            BY <1>4, <2>1, <2>3
        <2> QED
            BY <2>2, <2>4 DEF Shrinks, LessLeft
    <1> QED
        BY <1>5, <1>6, <1>7

\* A combination begins with its first leg.
LEMMA CombinationShrinks ==
    ASSUME NEW E, NEW o, NEW l, EnumGood(E, o, l), Progress(o, enum), Combination
    PROVE  Shrinks(o)
    <1> DEFINE P == Paths(view, E, o)
    <1>1. /\ enum \in EnumRecords(P, o) /\ enum.options = o /\ LegInv(P, o, enum, call)
          /\ OptionsGood(view, o)
        BY EnumFacts
    <1>2. enum.phase = "combination" /\ enum.phase # "done"
        BY DEF Combination
    <1>3. o.stages # << >> /\ Len(o.stages) \in Nat
        BY <1>1, <1>2, ProductIsNatural DEF LegInv
    <1>4. \/ \E r : enum' = [enum EXCEPT !.phase = "done", !.result = r]
          \/ \E p : enum' = [enum EXCEPT !.phase = "leg", !.stage = 1, !.combined = p]
        BY DEF Combination, Fail, Finish, Goto
    <1>5. CASE \E r : enum' = [enum EXCEPT !.phase = "done", !.result = r]
        BY <1>2, <1>5, EndShrinks
    <1>6. CASE \E p : enum' = [enum EXCEPT !.phase = "leg", !.stage = 1, !.combined = p]
        <2>1. /\ enum'.phase = "leg" /\ enum'.options = o /\ enum'.accepted = enum.accepted
              /\ enum'.combination = enum.combination /\ enum'.stage = 1
            BY <1>1, <1>6 DEF EnumRecords
        <2>2. Progress(o, enum')
            BY <2>1 DEF Progress
        <2>3. /\ LoopsLeft(enum)[1] = Product(Sizes(o)) - enum.combination + 1
              /\ LoopsLeft(enum)[2] = Len(o.stages) + 2
              /\ LoopsLeft(enum')[1] = Product(Sizes(o)) - enum'.combination + 1
              /\ LoopsLeft(enum')[2] = Len(o.stages) + 1 - enum'.stage
            BY <1>1, <1>2, <1>3, <2>1, LoopsStaged
        <2>4. /\ LoopsLeft(enum')[1] = LoopsLeft(enum)[1]
              /\ LoopsLeft(enum')[2] < LoopsLeft(enum)[2]
            BY <1>3, <2>1, <2>3
        <2> QED
            BY <2>2, <2>4 DEF Shrinks, LessLeft
    <1> QED
        BY <1>4, <1>5, <1>6

\* A leg waits for its search or gives the combination up.
LEMMA LegShrinks ==
    ASSUME NEW E, NEW o, NEW l, EnumGood(E, o, l), Progress(o, enum), Leg
    PROVE  Shrinks(o)
    <1> DEFINE P == Paths(view, E, o)
    <1>1. /\ enum \in EnumRecords(P, o) /\ enum.options = o /\ LegInv(P, o, enum, call)
        BY EnumFacts
    <1>2. enum.phase = "leg" /\ enum.phase # "done" /\ enum.phase \in {"leg", "legging", "finaling"}
        BY DEF Leg
    <1>3. o.stages # << >>
        BY <1>1, <1>2 DEF LegInv
    <1>4. \/ \E f, b : NextCombination(f, b)
          \/ enum' = [enum EXCEPT !.phase = "legging"]
          \/ enum' = [enum EXCEPT !.phase = "finaling"]
        BY DEF Leg, Search
    <1>5. CASE \E f, b : NextCombination(f, b)
        BY <1>2, <1>5, NextShrinks
    <1>6. CASE \/ enum' = [enum EXCEPT !.phase = "legging"]
               \/ enum' = [enum EXCEPT !.phase = "finaling"]
        <2>1. /\ enum'.phase \in {"legging", "finaling"}
              /\ enum'.options = o /\ enum'.accepted = enum.accepted
              /\ enum'.combination = enum.combination /\ enum'.stage = enum.stage
            <3>1. CASE enum' = [enum EXCEPT !.phase = "legging"]
                BY <1>1, <3>1 DEF EnumRecords
            <3>2. CASE enum' = [enum EXCEPT !.phase = "finaling"]
                BY <1>1, <3>2 DEF EnumRecords
            <3> QED
                BY <1>6, <3>1, <3>2
        <2>2. Progress(o, enum')
            BY <2>1 DEF Progress
        <2>3. /\ LoopsLeft(enum)[1] = Product(Sizes(o)) - enum.combination + 1
              /\ LoopsLeft(enum)[2] = Len(o.stages) + 1 - enum.stage
              /\ LoopsLeft(enum')[1] = Product(Sizes(o)) - enum'.combination + 1
              /\ LoopsLeft(enum')[2] = Len(o.stages) + 1 - enum'.stage
            BY <1>1, <1>2, <1>3, <2>1, LoopsStaged
        <2>4. /\ LoopsLeft(enum')[1] = LoopsLeft(enum)[1]
              /\ LoopsLeft(enum')[2] = LoopsLeft(enum)[2]
              /\ enum'.phase \in Waiting
            BY <2>1, <2>3 DEF Waiting
        <2>5. LessLeft(enum, call, enum', call')
            BY <1>2, <2>4, PhaseLess
        <2> QED
            BY <2>2, <2>5 DEF Shrinks
    <1> QED
        BY <1>4, <1>5, <1>6

\* A leg that was found is one leg less to go.
LEMMA LegFoundShrinks ==
    ASSUME NEW E, NEW o, NEW l, EnumGood(E, o, l), Progress(o, enum), LegFound
    PROVE  Shrinks(o)
    <1> DEFINE P == Paths(view, E, o)
    <1>1. /\ enum \in EnumRecords(P, o) /\ enum.options = o /\ LegInv(P, o, enum, call)
          /\ OptionsGood(view, o)
        BY EnumFacts
    <1>2. /\ enum.phase = "legging" /\ enum.phase # "done"
          /\ enum.phase \in {"leg", "legging", "finaling"}
        BY DEF LegFound
    <1>3. o.stages # << >> /\ Len(o.stages) \in Nat /\ enum.stage \in Nat
        BY <1>1, <1>2, ProductIsNatural, EnumFields DEF LegInv
    <1>4. \/ \E r : enum' = [enum EXCEPT !.phase = "done", !.result = r]
          \/ \E f, b : NextCombination(f, b)
          \/ \E p : enum' = [enum EXCEPT !.phase = "leg", !.stage = @ + 1, !.combined = p]
        BY DEF LegFound, FailLimit, Finish, Goto
    <1>5. CASE \E r : enum' = [enum EXCEPT !.phase = "done", !.result = r]
        BY <1>2, <1>5, EndShrinks
    <1>6. CASE \E f, b : NextCombination(f, b)
        BY <1>2, <1>6, NextShrinks
    <1>7. CASE \E p : enum' = [enum EXCEPT !.phase = "leg", !.stage = @ + 1, !.combined = p]
        <2>1. /\ enum'.phase = "leg" /\ enum'.options = o /\ enum'.accepted = enum.accepted
              /\ enum'.combination = enum.combination /\ enum'.stage = enum.stage + 1
            BY <1>1, <1>7 DEF EnumRecords
        <2>2. Progress(o, enum')
            BY <2>1 DEF Progress
        <2>3. /\ LoopsLeft(enum)[1] = Product(Sizes(o)) - enum.combination + 1
              /\ LoopsLeft(enum)[2] = Len(o.stages) + 1 - enum.stage
              /\ LoopsLeft(enum')[1] = Product(Sizes(o)) - enum'.combination + 1
              /\ LoopsLeft(enum')[2] = Len(o.stages) + 1 - enum'.stage
            BY <1>1, <1>2, <1>3, <2>1, LoopsStaged
        <2>4. /\ LoopsLeft(enum')[1] = LoopsLeft(enum)[1]
              /\ LoopsLeft(enum')[2] < LoopsLeft(enum)[2]
            BY <1>3, <2>1, <2>3
        <2> QED
            BY <2>2, <2>4 DEF Shrinks, LessLeft
    <1> QED
        BY <1>4, <1>5, <1>6, <1>7

\* The last leg ends the combination, or the enumeration.
LEMMA FinalFoundShrinks ==
    ASSUME NEW E, NEW o, NEW l, EnumGood(E, o, l), Progress(o, enum), FinalFound
    PROVE  Shrinks(o)
    <1>1. /\ enum.phase = "finaling" /\ enum.phase # "done"
          /\ enum.phase \in {"leg", "legging", "finaling"}
        BY DEF FinalFound
    <1>2. \/ \E r : enum' = [enum EXCEPT !.phase = "done", !.result = r]
          \/ \E f, b : NextCombination(f, b)
        BY DEF FinalFound, FailLimit, Finish, Goto
    <1>3. CASE \E r : enum' = [enum EXCEPT !.phase = "done", !.result = r]
        BY <1>1, <1>3, EndShrinks
    <1>4. CASE \E f, b : NextCombination(f, b)
        BY <1>1, <1>4, NextShrinks
    <1> QED
        BY <1>2, <1>3, <1>4

\* Every step of an enumeration leaves less to do.
LEMMA EnumStepShrinks ==
    ASSUME NEW E, NEW o, NEW l, EnumGood(E, o, l), Progress(o, enum), EnumStep
    PROVE  Shrinks(o)
    <1>1. CASE EnumStart
        BY <1>1, StartShrinks
    <1>2. CASE Pop
        BY <1>2, PopShrinks
    <1>3. CASE First
        BY <1>3, FirstShrinks
    <1>4. CASE Spur
        BY <1>4, SpurShrinks
    <1>5. CASE SpurFound
        BY <1>5, SpurFoundShrinks
    <1>6. CASE Combination
        BY <1>6, CombinationShrinks
    <1>7. CASE Leg
        BY <1>7, LegShrinks
    <1>8. CASE LegFound
        BY <1>8, LegFoundShrinks
    <1>9. CASE FinalFound
        BY <1>9, FinalFoundShrinks
    <1> QED
        BY <1>1, <1>2, <1>3, <1>4, <1>5, <1>6, <1>7, <1>8, <1>9 DEF EnumStep

\* The larger of two numbers.
LEMMA MaxOfTwo ==
    ASSUME NEW a \in Int, NEW b \in Int
    PROVE  Max({a, b}) = IF a >= b THEN a ELSE b
    <1> DEFINE m == IF a >= b THEN a ELSE b
    <1>1. \A x \in {a, b} : (\A y \in {a, b} : x >= y) <=> x = m
        OBVIOUS
    <1>2. m \in {a, b}
        OBVIOUS
    <1> HIDE DEF m
    <1>3. (CHOOSE x \in {a, b} : \A y \in {a, b} : x >= y) = m
        BY <1>1, <1>2, Zenon
    <1> QED
        BY <1>3 DEF Max, m

\* A request that is valid asks for a candidate.
LEMMA ValidAsks ==
    ASSUME NEW r, NEW l, ValidateRequest(r, l) = OK
    PROVE  r.max_candidates # 0
    <1> DEFINE a1 == NilId \in {r.id, r.source.id, r.destination.id}
               a2 == r.max_candidates = 0
               a3 == r.max_candidates > l.max_candidates_per_request
               a4 == r.constraints.layer \notin PathLayers
               a5 == r.mode \notin PlanningModes
               a6 == r.policy.authority_validation \notin AuthorityValidationModes
               a7 == \E q \in Range(r.constraints.required_capabilities) :
                       q.scope \notin CapabilityScopes \/ q.comparator \notin CapabilityComparators
               c8 == ValidateConstraintSet(r.constraints, l)
               c9 == ValidatePolicy(r.policy, l)
               a10 == r.expected_topology = 0
               a11 == r.expected_snapshot = NilId
               checks == << <<a1, "MALFORMED_IDENTIFIER">>,
                            <<a2, "CANDIDATE_LIMIT_EXCEEDED">>,
                            <<a3, "REQUESTED_CANDIDATES_ABOVE_CEILING">>,
                            <<a4, "UNSUPPORTED_LAYER">>,
                            <<a5, "UNSUPPORTED_REQUEST">>,
                            <<a6, "UNSUPPORTED_REQUEST">>,
                            <<a7, "UNSUPPORTED_REQUEST">>,
                            <<c8 # OK, c8>>,
                            <<c9 # OK, c9>>,
                            <<a10, "MALFORMED_IDENTIFIER">>,
                            <<a11, "MALFORMED_IDENTIFIER">> >>
    <1>1. FirstFailure(checks) = OK
        BY DEF ValidateRequest
    <1> HIDE DEF a1, a2, a3, a4, a5, a6, a7, c8, c9, a10, a11
    <1>2. /\ Len(checks) = 11 /\ checks[2][1] = a2
          /\ checks[8][1] = (c8 # OK) /\ checks[8][2] = c8
          /\ checks[9][1] = (c9 # OK) /\ checks[9][2] = c9
        OBVIOUS
    <1>3. \A i \in (1..7) \cup {10, 11} : checks[i][2] # OK
        BY DEF OK
    <1> HIDE DEF checks
    <1>4. (checks[8][1] => checks[8][2] # OK) /\ (checks[9][1] => checks[9][2] # OK)
        BY <1>2, Zenon
    <1> DEFINE n == 11
    <1>5. n \in Nat /\ Len(checks) = n /\ 2 \in 1..n
        BY <1>2
    <1>6. \A i \in 1..n : i \in (1..7) \cup {10, 11} \/ i = 8 \/ i = 9
        OBVIOUS
    <1> HIDE DEF n
    <1>7. \A i \in 1..n : checks[i][1] => checks[i][2] # OK
        BY <1>3, <1>4, <1>6, Zenon
    <1>8. \A i \in 1..n : ~checks[i][1]
        BY <1>1, <1>5, <1>7, NoFailure
    <1>9. ~a2
        BY <1>2, <1>5, <1>8, Zenon
    <1> QED
        BY <1>9 DEF a2

\* So the enumeration of a request that is not refused wants a path.
LEMMA WantsAPath ==
    ASSUME NEW r, Request(r), NEW l, l.max_enumeration_candidates \in Nat,
           Refusal(r, l) = <<OK, OK>>, NEW src, NEW dst
    PROVE  Options(r, l, src, dst).wanted \in Nat \ {0}
    <1> DEFINE n == r.max_candidates
               m == l.max_enumeration_candidates
               w == IF r.constraints.max_members_per_failure_domain = Absent THEN n
                    ELSE Max({n, m})
    <1>1. n \in Nat
        BY DEF Request
    <1>2. n # 0
        <2> DEFINE invalid == ValidateRequest(r, l)
        <2>1. invalid # OK => Refusal(r, l) = <<StatusForValidationCode(invalid), invalid>>
            BY DEF Refusal
        <2> HIDE DEF invalid
        <2>2. invalid = OK
            BY <2>1
        <2> QED
            BY <2>2, ValidAsks DEF invalid
    <1>3. Options(r, l, src, dst).wanted = w
        <2> HIDE DEF w
        <2>1. \A a, b, c, d, e, f, g, h :
                [source |-> a, destination |-> b, k |-> c, max_hops |-> d, stages |-> e,
                 member_limit |-> f, fail_closed |-> g, wanted |-> h].wanted = h
            OBVIOUS
        <2> QED
            BY <2>1 DEF Options, w
    <1> HIDE DEF n
    <1>4. Max({n, m}) = IF n >= m THEN n ELSE m
        <2> HIDE DEF m
        <2>1. m \in Nat
            BY DEF m
        <2> QED
            BY <1>1, <2>1, MaxOfTwo
    <1> QED
        BY <1>1, <1>2, <1>3, <1>4

\* An enumeration that has begun keeps its counters within their bounds.
ProgressInv == enum.phase # "idle" => Progress(enum.options, enum)

\* A plan starts with its counters within their bounds.
LEMMA ProgressStarts ==
    ASSUME PlanInv, ProgressInv, NEW r \in S.requests, Plan(r)
    PROVE  ProgressInv'
    <1> DEFINE refusal == Refusal(r, S.limits)
               src == NodeOf(snapshot, r.source)
               dst == NodeOf(snapshot, r.destination)
               v == BuildPlanningView(snapshot, r, S.limits, src, dst)
               o == Options(r, S.limits, src, dst)
    <1>1. IF refusal # <<OK, OK>> THEN Refuse(refusal[1], refusal[2])
          ELSE IF v.fatal # OK THEN Refuse("CONSTRAINT_UNSATISFIED", v.fatal)
          ELSE enum' = IF src = dst /\ o.stages = << >> THEN Identity(r, o)
                       ELSE NewEnumeration(o)
        BY DEF Plan
    <1>2. CASE refusal # <<OK, OK>> \/ v.fatal # OK
        <2>1. \E a, b : Refuse(a, b)
            <3> HIDE DEF refusal, v
            <3> QED
                BY <1>1, <1>2
        <2>2. enum' = enum
            BY <2>1 DEF Refuse
        <2> QED
            BY <2>2 DEF ProgressInv
    <1>3. CASE refusal = <<OK, OK>> /\ v.fatal = OK
        <2>1. enum' = Identity(r, o) \/ enum' = NewEnumeration(o)
            <3> HIDE DEF refusal, v, o
            <3> QED
                BY <1>1, <1>3
        <2>2. /\ SnapshotCoherent /\ RecordsInv
            BY DEF PlanInv, BuilderInv
        <2>3. Request(r) /\ S.limits.max_enumeration_candidates \in Nat
            BY <2>2, ScenarioAssumption DEF RecordsInv, S
        <2>4. o.wanted \in Nat \ {0}
            BY <1>3, <2>3, WantsAPath
        <2>5. OptionsGood(v, o)
            <3> DEFINE s1 == src
                       d1 == dst
                       v1 == v
                       o1 == o
            <3>1. /\ s1 = NodeOf(snapshot, r.source) /\ d1 = NodeOf(snapshot, r.destination)
                  /\ v1 = BuildPlanningView(snapshot, r, S.limits, s1, d1) /\ v1.fatal = OK
                  /\ o1 = Options(r, S.limits, s1, d1)
                  /\ Refusal(r, S.limits) = <<OK, OK>>
                BY <1>3
            <3> HIDE DEF s1, d1, v1, o1
            <3>2. OptionsGood(v1, o1)
                BY <2>2, <3>1, PlanContext
            <3> QED
                BY <3>2 DEF v1, o1
        <2> HIDE DEF o, v
        <2>6. Product(Sizes(o)) \in Nat
            BY <2>5, ProductIsNatural
        <2>7. enum'.options = o /\ enum'.accepted = << >> /\ enum'.combination = 0
            <3>1. CASE enum' = NewEnumeration(o)
                BY <3>1 DEF NewEnumeration
            <3>2. CASE enum' = Identity(r, o)
                BY <3>2 DEF Identity, NewEnumeration
            <3> QED
                BY <2>1, <3>1, <3>2
        <2>8. Len(enum'.accepted) = 0
            BY <2>7
        <2>9. Progress(o, enum')
            BY <2>4, <2>6, <2>7, <2>8 DEF Progress
        <2> QED
            BY <2>7, <2>9 DEF ProgressInv
    <1> QED
        BY <1>2, <1>3

\* Every step of an enumeration in progress leaves less to do.
LEMMA EnumerateShrinks ==
    ASSUME PlanInv, ProgressInv, Enumerate
    PROVE  ProgressInv' /\ LexLess(WorkLeft(enum', call'), WorkLeft(enum, call))
    <1>1. stage = "search" /\ EnumStep
        BY DEF Enumerate
    <1>2. enum.phase # "idle"
        BY <1>1 DEF PlanInv, IdleInv
    <1> DEFINE E == Entries(snapshot, request, view)
               o == enum.options
               l == S.limits
    <1>3. EnumGood(E, o, l) /\ Progress(o, enum)
        BY <1>2, PlanEnumGood DEF ProgressInv
    <1> HIDE DEF E, o, l
    <1>4. EnumInv(snapshot, view, E, o, l, enum', call', budget')
        BY <1>1, <1>3, EnumStepInv
    <1>5. enum'.options = o
        BY <1>4, EnumBegun
    <1>6. Shrinks(o)
        BY <1>1, <1>3, EnumStepShrinks
    <1>7. Progress(o, enum') /\ LessLeft(enum, call, enum', call')
        BY <1>6 DEF Shrinks
    <1>8. LexLess(WorkLeft(enum', call'), WorkLeft(enum, call))
        BY <1>7, LessIsLex
    <1> QED
        BY <1>5, <1>7, <1>8 DEF ProgressInv

\* Every step keeps the counters within their bounds.
LEMMA ProgressStep ==
    ASSUME PlanInv, ProgressInv, [Next]_vars
    PROVE  ProgressInv'
    <1>1. CASE CallBuilder \/ CallBuild \/ Conclude \/ Done \/ UNCHANGED vars
        <2>1. enum' = enum
            BY <1>1 DEF CallBuilder, CallBuild, Conclude, Done, vars, searchVars
        <2> QED
            BY <2>1 DEF ProgressInv
    <1>2. CASE \E r \in S.requests : Plan(r)
        BY <1>2, ProgressStarts
    <1>3. CASE Enumerate
        BY <1>3, EnumerateShrinks
    <1> QED
        BY <1>1, <1>2, <1>3 DEF Next

\* Every plan returns: each step of an enumeration makes a measure smaller that is bounded
\* below, whatever the fabric, the stages and the limits (search.cpp, the loops of
\* EnumerateCandidatePaths and of the two searches).
THEOREM EveryPlanReturns == Spec => WorkShrinks
    <1>1. Init => ProgressInv
        BY DEF Init, NoEnumeration, ProgressInv
    <1>2. PlanInv /\ ProgressInv /\ [Next]_vars => ProgressInv'
        BY ProgressStep
    <1>3. PlanInv /\ ProgressInv /\ [Next]_vars =>
            [stage = "search" /\ stage' = "search" =>
               LexLess(WorkLeft(enum', call'), WorkLeft(enum, call))]_vars
        <2> SUFFICES ASSUME PlanInv, ProgressInv, [Next]_vars, ~UNCHANGED vars,
                            stage = "search", stage' = "search"
                     PROVE  LexLess(WorkLeft(enum', call'), WorkLeft(enum, call))
            OBVIOUS
        <2>1. Enumerate
            BY DEF Next, CallBuilder, CallBuild, Plan, Conclude, Done
        <2> QED
            BY <2>1, EnumerateShrinks
    <1> QED
        BY <1>1, <1>2, <1>3, PlanIsSound, PTL DEF Spec, WorkShrinks
=============================================================================
