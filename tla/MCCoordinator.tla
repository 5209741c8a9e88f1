--------------------------- MODULE MCCoordinator ---------------------------
(* Small instances of Coordinator.                                         *)
EXTENDS Coordinator, TLC

CONSTANTS b1, noBoot, noRequest, r1, c1, c2

MCSnapshotEpoch == ("sA" :> 1) @@ ("sB" :> 2)
MCOneClient == (c1 :> {r1})
MCSharedRequest == (c1 :> {r1}) @@ (c2 :> {r1})
MCOneBoot == {b1}
MCOneBootSnapshot == (b1 :> "sA")
============================================================================
