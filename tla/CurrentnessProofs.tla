------------------------- MODULE CurrentnessProofs -------------------------
(***************************************************************************)
(* Facts about the classification of evidence, for any generations.        *)
(***************************************************************************)
EXTENDS Currentness, TLAPS

\* The ranks of the severity order, one per classification.
LEMMA SeverityTable ==
    /\ CurrentnessSeverity("RETIRED") = 0
    /\ CurrentnessSeverity("STALE_EPOCH") = 1
    /\ CurrentnessSeverity("STALE_TOPOLOGY") = 2
    /\ CurrentnessSeverity("STALE_LINK_STATE") = 3
    /\ CurrentnessSeverity("STALE_PORT_STATE") = 4
    /\ CurrentnessSeverity("STALE_CAPABILITY") = 5
    /\ CurrentnessSeverity("STALE_FAILURE_DOMAIN") = 6
    /\ CurrentnessSeverity("STALE_POLICY") = 7
    /\ CurrentnessSeverity("REVALIDATION_REQUIRED") = 8
    /\ CurrentnessSeverity("CURRENT") = 9
    BY Zenon DEF CurrentnessSeverity

\* Severities are ranks between 0 and 9, and CURRENT alone has rank 9.
LEMMA SeverityRank ==
    ASSUME NEW c \in CurrentnessValue
    PROVE  /\ CurrentnessSeverity(c) \in 0..9
           /\ c # "CURRENT" => CurrentnessSeverity(c) < 9
    BY SeverityTable DEF CurrentnessValue

\* A change in one dimension is never classified as CURRENT.
LEMMA StaleForType ==
    ASSUME NEW d \in Dimension
    PROVE  StaleFor(d) \in CurrentnessValue \ {"CURRENT"}
    BY DEF Dimension, StaleFor, CurrentnessValue

\* Folding a real classification onto any other never yields CURRENT.
LEMMA MoreSevereNotCurrent ==
    ASSUME NEW a \in CurrentnessValue, NEW b \in CurrentnessValue, b # "CURRENT"
    PROVE  MoreSevere(a, b) # "CURRENT"
    BY SeverityRank, SeverityTable DEF MoreSevere

\* Evidence compared with itself is CURRENT.
LEMMA ClassifySame ==
    ASSUME NEW g
    PROVE  ClassifyEvidence(g, g) = "CURRENT"
    <1>1. Changed(g, g) = {}
        BY DEF Changed
    <1>2. {StaleFor(d) : d \in Changed(g, g)} \cup {"CURRENT"} = {"CURRENT"}
        BY <1>1
    <1>3. CurrentnessSeverity("CURRENT") = 9
        BY SeverityTable
    <1> QED
        BY <1>2, <1>3 DEF ClassifyEvidence

\* What ClassifyEvidence chooses from.
Classifications(g, h) == {StaleFor(d) : d \in Changed(g, h)} \cup {"CURRENT"}

\* Classification always finds a most severe change: the candidates are few
\* and their ranks are totally ordered.
LEMMA ClassifyLeast ==
    ASSUME NEW g, NEW h
    PROVE  /\ ClassifyEvidence(g, h) \in CurrentnessValue
           /\ ClassifyEvidence(g, h) \in Classifications(g, h)
           /\ \A o \in Classifications(g, h) :
                  CurrentnessSeverity(ClassifyEvidence(g, h)) <= CurrentnessSeverity(o)
    <1> DEFINE stale == Classifications(g, h)
    <1>1. stale \subseteq {"STALE_EPOCH", "STALE_TOPOLOGY", "STALE_LINK_STATE",
                           "STALE_PORT_STATE", "STALE_CAPABILITY",
                           "STALE_FAILURE_DOMAIN", "STALE_POLICY", "CURRENT"}
        BY DEF Classifications, Changed, Dimension, StaleFor
    <1>2. \E c \in stale : \A o \in stale :
              CurrentnessSeverity(c) <= CurrentnessSeverity(o)
        <2> HIDE DEF stale
        <2>0. "CURRENT" \in stale
            BY DEF stale, Classifications
        <2>1. CASE "STALE_EPOCH" \in stale
            BY <1>1, <2>1, SeverityTable
        <2>2. CASE "STALE_EPOCH" \notin stale /\ "STALE_TOPOLOGY" \in stale
            BY <1>1, <2>2, SeverityTable
        <2>3. CASE /\ {"STALE_EPOCH", "STALE_TOPOLOGY"} \cap stale = {}
                   /\ "STALE_LINK_STATE" \in stale
            BY <1>1, <2>3, SeverityTable
        <2>4. CASE /\ {"STALE_EPOCH", "STALE_TOPOLOGY", "STALE_LINK_STATE"} \cap stale = {}
                   /\ "STALE_PORT_STATE" \in stale
            BY <1>1, <2>4, SeverityTable
        <2>5. CASE /\ stale \subseteq {"STALE_CAPABILITY", "STALE_FAILURE_DOMAIN",
                                       "STALE_POLICY", "CURRENT"}
                   /\ "STALE_CAPABILITY" \in stale
            BY <1>1, <2>5, SeverityTable
        <2>6. CASE stale \subseteq {"STALE_FAILURE_DOMAIN", "STALE_POLICY", "CURRENT"}
            BY <2>0, <2>6, SeverityTable
        <2> QED
            BY <1>1, <2>1, <2>2, <2>3, <2>4, <2>5, <2>6
    <1>3. /\ ClassifyEvidence(g, h) \in stale
          /\ \A o \in stale :
                 CurrentnessSeverity(ClassifyEvidence(g, h)) <= CurrentnessSeverity(o)
        BY <1>2 DEF ClassifyEvidence, Classifications
    <1> QED
        BY <1>1, <1>3 DEF CurrentnessValue

\* The classification is one of the CurrentnessState values.
LEMMA ClassifyType ==
    ASSUME NEW g, NEW h
    PROVE  ClassifyEvidence(g, h) \in CurrentnessValue
    BY ClassifyLeast

\* The most severe change wins, whatever the generations: CURRENT is answered
\* exactly when no dimension of the evidence changed, any other answer names a
\* dimension that did change, and none that changed is more severe
\* (ClassifyEvidence in graph.cpp).
THEOREM MostSevereWins ==
    ASSUME NEW g, NEW h
    PROVE  LET c == ClassifyEvidence(g, h)
           IN  /\ c = "CURRENT" <=> Changed(g, h) = {}
               /\ c # "CURRENT" => \E d \in Changed(g, h) : c = StaleFor(d)
               /\ \A d \in Changed(g, h) :
                      CurrentnessSeverity(c) <= CurrentnessSeverity(StaleFor(d))
    <1> DEFINE c == ClassifyEvidence(g, h)
    <1>1. c \in Classifications(g, h)
          /\ \A o \in Classifications(g, h) : CurrentnessSeverity(c) <= CurrentnessSeverity(o)
        BY ClassifyLeast
    <1> HIDE DEF c
    <1>2. c # "CURRENT" => \E d \in Changed(g, h) : c = StaleFor(d)
        BY <1>1 DEF Classifications
    <1>3. \A d \in Changed(g, h) : CurrentnessSeverity(c) <= CurrentnessSeverity(StaleFor(d))
        BY <1>1 DEF Classifications
    <1>4. ASSUME NEW d \in Changed(g, h)
          PROVE  c # "CURRENT"
        <2>1. d \in Dimension
            BY DEF Changed
        <2>2. CurrentnessSeverity(StaleFor(d)) \in 0..9 /\ CurrentnessSeverity(StaleFor(d)) < 9
            BY <2>1, StaleForType, SeverityRank
        <2>3. CurrentnessSeverity(c) < 9 \/ CurrentnessSeverity(c) # 9
            BY <1>3, <2>2
        <2> QED
            BY <1>3, <2>2, <2>3, SeverityTable
    <1> QED
        BY <1>2, <1>3, <1>4 DEF c
============================================================================
