--------------------------- MODULE MCConversation ---------------------------
(* A client, two listeners and up to two calls between them.               *)
EXTENDS Conversation

CONSTANTS client, a, b, ghost, x, y

Request(to, id) == [from |-> client, to |-> to, thread |-> id]

OneRequest == {Request(a, x)}

ASSUME MCAssumption == Requests = OneRequest => OrderlyHost

\* Two senders to one instance of `a`, whose thread the switchboard stamps on
\* what either of them sends.
OneInstance == {Request(a, x), [from |-> ghost, to |-> a, thread |-> x]}

\* Everything is registered for every tag.
AllKinds == [n \in Listeners |-> Kinds]

\* Agents that may message each other and themselves; such as may message each
\* other, but only `a` itself; and such as may message nobody.
MutualPeers == [n \in Agents |-> Agents]
SomePeers == [n \in Agents |-> IF n = b THEN {a} ELSE Agents]
NoPeers == [n \in Agents |-> {}]
=============================================================================
