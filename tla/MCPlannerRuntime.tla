-------------------------- MODULE MCPlannerRuntime --------------------------
(* Small instances of PlannerRuntime.                                      *)
EXTENDS PlannerRuntime, TLC

CONSTANTS t1, t2, sA, sB, none, unstated

MCThreads1 == {t1}
MCThreads2 == {t1, t2}
MCSymmetry == Permutations({t1, t2})

MCSnapshots == {sA, sB}

\* sB drops subject 3 and is newer in topology, link state and epoch.
MCGens == (sA :> [d \in Dimension |-> 1]) @@
          (sB :> [d \in Dimension |->
                     IF d \in {"topology", "link_state", "epoch"} THEN 2 ELSE 1])
MCPresent == (sA :> {1, 2, 3}) @@ (sB :> {1, 2})

Plain == [id |-> "p", valid |-> TRUE, authorized |-> TRUE,
          coordinator_epoch |-> unstated, epoch |-> unstated, topology |-> unstated,
          snapshot |-> unstated, diagnostic |-> FALSE, operational_proof |-> TRUE,
          validation |-> "NONE"]

MCReq == [plain       |-> Plain,
          provisional |-> [Plain EXCEPT !.id = "q", !.operational_proof = FALSE],
          malformed   |-> [Plain EXCEPT !.valid = FALSE],
          outsider    |-> [Plain EXCEPT !.authorized = FALSE],
          fenced      |-> [Plain EXCEPT !.coordinator_epoch = 1],
          pinned      |-> [Plain EXCEPT !.epoch = 1, !.topology = 1,
                                        !.snapshot = sA],
          expecting   |-> [Plain EXCEPT !.topology = 1],
          required    |-> [Plain EXCEPT !.validation = "REQUIRED"],
          advisory    |-> [Plain EXCEPT !.validation = "BEST_EFFORT"]]

Found(cands) == [endpoints |-> "OK", fatal |-> FALSE, cands |-> cands,
                 truncated |-> FALSE, failure |-> "NO_PATH"]

\* Each structured outcome occurs for some request: paths, no path, an
\* unknown endpoint, an impossible constraint, a truncated enumeration.
MCOutcome ==
    [r \in DOMAIN MCReq |->
        (sA :> CASE r = "plain"       -> Found({{1, 2}, {1, 3}})
                 [] r = "expecting"   -> [Found({}) EXCEPT !.endpoints = "SOURCE_UNKNOWN"]
                 [] r = "provisional" -> [Found({{2}}) EXCEPT !.truncated = TRUE]
                 [] OTHER             -> Found({{1, 3}})) @@
        (sB :> CASE r = "provisional" -> Found({})
                 [] r = "advisory"    -> [Found({}) EXCEPT !.fatal = TRUE]
                 [] OTHER             -> Found({{1, 2}}))]

MCWatermarkRequests == {"plain", "required", "fenced"}
MCRetentionRequests == {"plain", "provisional", "advisory", "malformed",
                        "outsider", "pinned", "expecting"}
MCEpochs == {2, 3}
============================================================================
