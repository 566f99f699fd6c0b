--------------------------- MODULE SerialDelivery ---------------------------
(***************************************************************************)
(* What the dispatch stage promises its handlers, with no map, no lock, no *)
(* worker task and no idle timeout: every delivery thread has one backlog  *)
(* in arrival order and runs at most one handler call at a time; a message *)
(* leaves the backlog only to be handled, unless a handler call panics,    *)
(* which takes with it what was queued behind it on the same thread.       *)
(* Module Dispatch implements this specification.                          *)
(***************************************************************************)
EXTENDS Sequences

CONSTANTS
    Threads,     \* delivery thread ids
    Messages,    \* routed messages
    ThreadOf,    \* the thread each message is delivered on
    Panicking,   \* the messages whose handler call panics
    None         \* no message

VARIABLES
    backlog,     \* accepted and not yet begun, per thread, oldest first
    running      \* the message whose handler call is under way, per thread

vars == <<backlog, running>>

Init ==
    /\ backlog = [t \in Threads |-> <<>>]
    /\ running = [t \in Threads |-> None]

\* The dispatcher accepts a message for its thread.
Accept(m) ==
    /\ backlog' = [backlog EXCEPT ![ThreadOf[m]] = Append(@, m)]
    /\ UNCHANGED running

\* The next handler call of a thread begins, never while one is under way.
Start(t) ==
    /\ running[t] = None
    /\ backlog[t] # <<>>
    /\ running' = [running EXCEPT ![t] = Head(backlog[t])]
    /\ backlog' = [backlog EXCEPT ![t] = Tail(@)]

\* The handler call under way returns.
Finish(t) ==
    /\ running[t] \in Messages \ Panicking
    /\ running' = [running EXCEPT ![t] = None]
    /\ UNCHANGED backlog

\* The handler call under way panics.
Crash(t) ==
    /\ running[t] \in Panicking
    /\ running' = [running EXCEPT ![t] = None]
    /\ backlog' = [backlog EXCEPT ![t] = <<>>]

Next ==
    \/ \E m \in Messages : Accept(m)
    \/ \E t \in Threads : Start(t) \/ Finish(t) \/ Crash(t)

Spec == Init /\ [][Next]_vars

\* A thread with work goes on working, and handler calls end.
Fairness == \A t \in Threads : WF_vars(Start(t) \/ Finish(t) \/ Crash(t))

FairSpec == Spec /\ Fairness
=============================================================================
