---------------------------- MODULE MCPlanStore ----------------------------
(* Instances of PlanStore for TLC. *)
EXTENDS PlanStore

MCInode == 1..(Cardinality(Thread) + 2)
============================================================================
