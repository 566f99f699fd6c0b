------------------------------ MODULE Conduit -------------------------------
(***************************************************************************)
(* What the three trust gates and the channels between them amount to for  *)
(* a message: one line, first in first out, from which a gate may take out *)
(* only a message that is not bound for a local handler, and of which      *)
(* closing cuts off an end.  Module Stages implements this specification.  *)
(***************************************************************************)
EXTENDS Naturals, Sequences, SequencesExt

CONSTANTS
    Messages,    \* what may be put in
    Local        \* the messages bound for a local handler

VARIABLES
    line,        \* from ingress to dispatch, the oldest first
    closed       \* nothing can be put in any more

vars == <<line, closed>>

Init == line = <<>> /\ closed = FALSE

Put(m) == ~closed /\ line' = Append(line, m) /\ UNCHANGED closed

\* The oldest message reaches the dispatcher.
Take == line # <<>> /\ Head(line) \in Local /\ line' = Tail(line) /\ UNCHANGED closed

\* A gate refuses a message, or it leaves for a remote node.
TakeOut(i) == line[i] \notin Local /\ line' = RemoveAt(line, i) /\ UNCHANGED closed

\* Everything behind the first n messages is lost.
Close(n) == ~closed /\ closed' = TRUE /\ line' = SubSeq(line, 1, n)

Next ==
    \/ \E m \in Messages : Put(m)
    \/ Take
    \/ \E i \in DOMAIN line : TakeOut(i)
    \/ \E n \in 0..Len(line) : Close(n)

Spec == Init /\ [][Next]_vars
=============================================================================
