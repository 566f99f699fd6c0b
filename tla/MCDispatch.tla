----------------------------- MODULE MCDispatch -----------------------------
(* The workers, and what instances have of them behind the switchboard.  A  *)
(* behaviour is one of `part`, the other staying as it began.               *)
(*                                                                          *)
(* Two threads: t1 with three messages, so that a worker can be idle, reap, *)
(* be respawned or panic with messages behind it, and t2 with one.  The     *)
(* instances are those of module MCInstances.                               *)
EXTENDS Dispatch, MCInstances

CONSTANTS t1, t2, m1, m2, m3, m4

VARIABLE part

MCThreadOf == [m \in Messages |-> IF m = m4 THEN t2 ELSE t1]

ASSUME MCAssumption == InstancesAssumption
-----------------------------------------------------------------------------
allVars == <<part, vars, instanceVars>>

MCInit ==
    /\ part \in {"workers", "instances"} /\ Init /\ InstancesInit
    /\ part = "workers" => \A e \in Entries : entry[e].at = "never"

MCNext ==
    \/ part = "workers" /\ Next /\ UNCHANGED <<part, instanceVars>>
    \/ part = "instances" /\ InstancesNext /\ UNCHANGED <<part, vars>>

\* Of Dispatch, nothing is fair to begin with; the fairness of Instances is
\* for where they are the part.
MCFairness ==
    /\ Fairness
    /\ \A e \in Entries : WF_instanceVars(part = "instances" /\ RouteEntry(e))
    /\ WF_instanceVars(part = "instances" /\ RouteStage)
    /\ \A t \in Ids : WF_instanceVars(part = "instances" /\ Work(t))

MCSpec == MCInit /\ [][MCNext]_allVars /\ MCFairness
-----------------------------------------------------------------------------
\* Every call of Switchboard::route returns, and what it was told is injected and
\* passes the gates is handled, unless the pipeline is shut down: where the
\* instances are the part.
CallersAreServed == part = "instances" => EntriesAreHandled
=============================================================================
