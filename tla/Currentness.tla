---------------------------- MODULE Currentness ----------------------------
(***************************************************************************)
(* How usable a plan still is.  The classification compares the evidence   *)
(* generations a plan was computed under with the ones now published; when *)
(* several dimensions changed, the most severe classification wins.        *)
(***************************************************************************)
EXTENDS Integers

\* The generation counters of an EvidenceVector that classification reads.
Dimension == {"topology", "link_state", "ports", "capabilities",
              "failure_domains", "policy", "epoch"}

CurrentnessValue == {"CURRENT", "REVALIDATION_REQUIRED", "STALE_TOPOLOGY",
                     "STALE_LINK_STATE", "STALE_PORT_STATE", "STALE_CAPABILITY",
                     "STALE_FAILURE_DOMAIN", "STALE_POLICY", "STALE_EPOCH",
                     "RETIRED"}

\* The classification of a change in one dimension.
StaleFor(d) ==
    CASE d = "topology"        -> "STALE_TOPOLOGY"
      [] d = "link_state"      -> "STALE_LINK_STATE"
      [] d = "ports"           -> "STALE_PORT_STATE"
      [] d = "capabilities"    -> "STALE_CAPABILITY"
      [] d = "failure_domains" -> "STALE_FAILURE_DOMAIN"
      [] d = "policy"          -> "STALE_POLICY"
      [] d = "epoch"           -> "STALE_EPOCH"

\* Lower is more severe.
CurrentnessSeverity(c) ==
    CASE c = "RETIRED"               -> 0
      [] c = "STALE_EPOCH"           -> 1
      [] c = "STALE_TOPOLOGY"        -> 2
      [] c = "STALE_LINK_STATE"      -> 3
      [] c = "STALE_PORT_STATE"      -> 4
      [] c = "STALE_CAPABILITY"      -> 5
      [] c = "STALE_FAILURE_DOMAIN"  -> 6
      [] c = "STALE_POLICY"          -> 7
      [] c = "REVALIDATION_REQUIRED" -> 8
      [] c = "CURRENT"               -> 9

MoreSevere(a, b) ==
    IF CurrentnessSeverity(a) <= CurrentnessSeverity(b) THEN a ELSE b

Changed(prior, current) == {d \in Dimension : prior[d] # current[d]}

\* The fold of MoreSevere over the changed dimensions, starting from CURRENT.
ClassifyEvidence(prior, current) ==
    LET stale == {StaleFor(d) : d \in Changed(prior, current)} \cup {"CURRENT"}
    IN  CHOOSE c \in stale :
            \A o \in stale : CurrentnessSeverity(c) <= CurrentnessSeverity(o)
============================================================================
