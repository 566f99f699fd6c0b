------------------------------ MODULE MCStages ------------------------------
(* Two instances of the stages.  In one, messages of every kind go through  *)
(* channels of two places; in the other, the ring, more messages than it    *)
(* holds go through channels of one.  A behaviour is one of `part`.         *)
EXTENDS Stages

CONSTANTS t1, t2

VARIABLE part

Kind(t, f) == [thread |-> t, fate |-> f]

\* Two deliveries that can be told apart, a message that a gate refuses and
\* one that leaves on the way.
MixedKinds == {Kind(t1, "dispatch"), Kind(t2, "dispatch"), Kind(t1, "validate"), Kind(t1, "remote")}

\* All messages alike, and all of them delivered: the ring fills up soonest.
Ring == INSTANCE Stages WITH Kinds <- {Kind(t1, "dispatch")}, Cap <- 1

ASSUME RingAssumption == Ring!StagesAssumption /\ Ring!NoneAssumption

MCInit == Init /\ part \in {"line", "ring"}

\* In the line two messages are injected, and only deliveries on t1 have responses.
MCNext ==
    \/ /\ part = "line" /\ Next /\ injected' <= 2 /\ UNCHANGED part
       /\ \A i \in DOMAIN chan'["parse"] :
            LET m == chan'["parse"][i] IN m.fuel > 0 => m.thread = t1 /\ m.fate = "dispatch"
    \/ part = "ring" /\ Ring!Next /\ UNCHANGED part

\* The fairness of module Stages, for the ring.
MCSpec ==
    /\ MCInit /\ [][MCNext]_<<vars, part>>
    /\ \A s \in Gates : WF_vars(part = "ring" /\ Ring!GateStep(s))
    /\ WF_vars(part = "ring" /\ Ring!ParseEnds)
    /\ \A s \in Stages \ {"parse"} : WF_vars(part = "ring" /\ Ring!Ends(s))
    /\ WF_vars(part = "ring" /\ Ring!Dispatch)
    /\ \A t \in Threads : WF_vars(part = "ring" /\ Ring!WorkerStep(t)) /\ SF_vars(part = "ring" /\ Ring!Reinject(t))
    /\ WF_vars(part = "ring" /\ Ring!Transmit)
-----------------------------------------------------------------------------
(* The liveness properties of module Stages.                                *)

\* The loop never jams, though it holds fewer messages than are injected.
RingDrains == part = "ring" => Ring!Drains

\* shutdown() returns, whatever is in flight.
RingShutsDown == part = "ring" => Ring!ShutdownCompletes
=============================================================================
