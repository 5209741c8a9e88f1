---------------------------- MODULE AtomicStore ----------------------------
(***************************************************************************)
(* What the planning history on disk promises: the destination holds       *)
(* nothing, or one whole image that some save was asked to write.  Saves   *)
(* may be abandoned at any time, by an error or by a crash, and then       *)
(* change nothing; no reader ever sees a part of an image.                 *)
(***************************************************************************)
EXTENDS Sequences

CONSTANTS Record, NoFile

VARIABLES
    durable,    \* what the destination holds
    requested   \* the images of the saves in progress

Init == durable = NoFile /\ requested = {}

\* A save is asked to write an image.
Request ==
    /\ \E image \in requested' :
           image \in Seq(Record) /\ requested' = requested \cup {image}
    /\ UNCHANGED durable

\* A save in progress takes effect, all at once.
Replace ==
    /\ durable' \in requested
    /\ requested' \in {requested, requested \ {durable'}}

\* Saves end without an effect.
Abandon == requested' \in SUBSET requested /\ UNCHANGED durable

Next == Request \/ Replace \/ Abandon

Spec == Init /\ [][Next]_<<durable, requested>>
============================================================================
