-------------------------- MODULE MCPlannerClient --------------------------
(***************************************************************************)
(* A client shared by two threads, asking about a plan the coordinator's   *)
(* first evidence supports and one with a sequence it has not reached.     *)
(***************************************************************************)
EXTENDS PlannerClient

\* Three calls over one connection let a stream that lost its alignment find it
\* again; two connections let an answer outlive the one it was sent over; three
\* changes let the coordinator move before, between and after its two reads.
MCBounds == {[calls |-> 3, connections |-> 1, changes |-> 0],
             [calls |-> 2, connections |-> 2, changes |-> 1],
             [calls |-> 1, connections |-> 1, changes |-> 3]}

MCPlan == [evidence : {[d \in Dimension |-> 1]}, sequence : {1, 2}]
============================================================================
