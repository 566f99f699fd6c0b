------------------------------ MODULE Federation ------------------------------
(***************************************************************************)
(* Several nodes, each with a pipeline and a federation server             *)
(* (federation.rs, with the route stage's federation egress and the        *)
(* provenance process_message carries, pipeline.rs, and the switchboard    *)
(* that takes in what the server has opened).                              *)
(*                                                                         *)
(* The transport is the host's, and fire-and-forget: a frame may be lost,  *)
(* overtaken or delivered again.  Frames are sealed with the key two peers *)
(* share; that a frame opens only under the key it was sealed with is what *)
(* the cipher gives, and is taken as given.  Threads, peers and the        *)
(* observer are left to module Conversation.                               *)
(***************************************************************************)
EXTENDS Naturals, Sequences

CONSTANTS
    Nodes,       \* namespaces, one for each node
    Names,       \* names of listeners and of clients
    Listeners,   \* [Nodes -> SUBSET Names]: each node's routing table
    Peers,       \* [Nodes -> SUBSET Nodes]: the domain of each PeerDirectory
    Key,         \* [Nodes -> [Nodes -> Keys]]: Peer::key
    Keys,
    Mark,        \* [Nodes -> [Nodes -> SUBSET Labels]]: Peer::inbound_provenance
    Labels,      \* provenance bits
    Matrix,      \* [Nodes -> SUBSET (Nodes \X (Nodes \cup Names))]: the Authorizer
    Requests,    \* what hosts inject: at a node, from a local sender
    Targets,     \* the addresses handlers call
    NoNode,
    MaxCalls,    \* bound: how many handler calls there are
    MaxReceived  \* bound: how many frames are delivered, repetitions included

Segment == [name : Nodes \cup Names, keyed : BOOLEAN]
Address == Seq(Segment) \ {<<>>}

ASSUME FederationAssumption ==
    /\ Nodes \cap Names = {} /\ NoNode \notin Nodes
    /\ Listeners \in [Nodes -> SUBSET Names]
    /\ Peers \in [Nodes -> SUBSET Nodes] /\ \A n \in Nodes : n \notin Peers[n]
    /\ Key \in [Nodes -> [Nodes -> Keys]]
    /\ Mark \in [Nodes -> [Nodes -> SUBSET Labels]]
    /\ Matrix \in [Nodes -> SUBSET (Nodes \X (Nodes \cup Names))]
    /\ \A q \in Requests : q.at \in Nodes /\ q.from \in Address /\ q.to \in Address
    /\ Targets \subseteq Address
    /\ MaxCalls \in Nat /\ MaxReceived \in Nat

VARIABLES
    line,      \* each node's ingress up to its route stage
    pending,   \* envelopes for its handlers, on whatever threads
    egress,    \* its federation egress channel
    network,   \* every frame ever handed to the transport
    requests,  \* requests not injected yet
    calls,     \* handler calls so far
    received   \* frames delivered so far

vars == <<line, pending, egress, network, requests, calls, received>>

\* An envelope's address pair and provenance, and what only the model knows:
\* the peer link it came in by, the links crossed by it and by what led to it,
\* its addressee as its author wrote it, and the nodes it has come to since.
Envelope ==
    [from : Address, to : Address, labels : SUBSET Labels,
     via : Nodes \cup {NoNode}, crossed : SUBSET (Nodes \X Nodes),
     dest : Address, route : Seq(Nodes)]

Frame == [sender : Nodes, endpoint : Nodes, key : Keys, envelope : Envelope]

TypeOK ==
    /\ line \in [Nodes -> Seq(Envelope)]
    /\ pending \in [Nodes -> Seq(Envelope)]
    /\ egress \in [Nodes -> Seq(Envelope)]
    /\ network \subseteq Frame
    /\ requests \subseteq Requests
    /\ calls \in 0..MaxCalls
    /\ received \in 0..MaxReceived

Init ==
    /\ line = [n \in Nodes |-> <<>>]
    /\ pending = [n \in Nodes |-> <<>>]
    /\ egress = [n \in Nodes |-> <<>>]
    /\ network = {}
    /\ requests = Requests
    /\ calls = 0
    /\ received = 0
-----------------------------------------------------------------------------
(* Addresses (wire.rs).                                                    *)

Flat(name) == <<[name |-> name, keyed |-> FALSE]>>

\* The leading segment's name: the node, if the address is a remote one.
Node(a) == Head(a).name

\* The first segment with a key, or else the first, names the listener.
FirstKeyed(a) == {i \in DOMAIN a : a[i].keyed /\ \A j \in 1..(i - 1) : ~a[j].keyed}

Organism(a) ==
    IF FirstKeyed(a) = {} THEN Head(a).name ELSE a[CHOOSE i \in FirstKeyed(a) : TRUE].name

\* Mutant of RerootOrigin: a sender that is not bare keeps its namespace.
RerootBareOnly(from, namespace) ==
    IF Len(from) >= 2 THEN from ELSE Flat(namespace) \o from

\* The sender's namespace becomes the peer's; a bare sender is prefixed.
RerootOrigin(from, namespace) ==
    Flat(namespace) \o (IF Len(from) >= 2 THEN Tail(from) ELSE from)

\* Mutant of Strip: not done.
StripNothing(to, node) == to

\* The receiving node's own prefix is removed, unless nothing would be left.
Strip(to, node) == IF Len(to) > 1 /\ Node(to) = node THEN Tail(to) ELSE to
-----------------------------------------------------------------------------
(* A node's pipeline.                                                      *)

\* The host injects an envelope of a local sender.
Inject(q) ==
    /\ q \in requests
    /\ requests' = requests \ {q}
    /\ line' = [line EXCEPT ![q.at] = Append(@,
         [from |-> q.from, to |-> q.to, labels |-> {},
          via |-> NoNode, crossed |-> {}, dest |-> q.to, route |-> <<>>])]
    /\ UNCHANGED <<pending, egress, network, calls, received>>

\* A gate refuses the next envelope, or it has no route.
Dies(n) ==
    /\ line[n] # <<>>
    /\ line' = [line EXCEPT ![n] = Tail(@)]
    /\ UNCHANGED <<pending, egress, network, requests, calls, received>>

\* is_remote: the leading segment is a peer's; it leaves by the egress channel.
RouteRemote(n) ==
    /\ line[n] # <<>>
    /\ Node(Head(line[n]).to) \in Peers[n]
    /\ egress' = [egress EXCEPT ![n] = Append(@, Head(line[n]))]
    /\ line' = [line EXCEPT ![n] = Tail(@)]
    /\ UNCHANGED <<pending, network, requests, calls, received>>

\* Otherwise it goes to the listener the address names.
RouteLocal(n) ==
    /\ line[n] # <<>>
    /\ Node(Head(line[n]).to) \notin Peers[n]
    /\ Organism(Head(line[n]).to) \in Listeners[n]
    /\ pending' = [pending EXCEPT ![n] = Append(@, Head(line[n]))]
    /\ line' = [line EXCEPT ![n] = Tail(@)]
    /\ UNCHANGED <<egress, network, requests, calls, received>>

\* What e's listener, or the pipeline for it, makes of e: an envelope from
\* `from` to `to` with e's provenance.
Response(e, from, to) ==
    [from |-> Flat(from), to |-> to, labels |-> e.labels,
     via |-> NoNode, crossed |-> e.crossed, dest |-> to, route |-> <<>>]

\* What a handler may bring forth: nothing, a call of a target, a Spawn with its
\* SpawnAck (which alone goes out if the peers do not allow the work), or a
\* reply to whom its chain leads to, known by a bare name only.
Responses(e) ==
    LET self == Organism(e.to)
        Ack(to) == Response(e, Organism(to), Flat(self))
    IN  {<<>>}
          \cup {<<Response(e, self, to)>> : to \in Targets}
          \cup {<<Response(e, self, to), Ack(to)>> : to \in Targets}
          \cup {<<Ack(to)>> : to \in Targets}
          \cup {<<Response(e, self, Flat(x))>> : x \in Nodes \cup Names}

\* The handler of the i-th pending envelope is called.  Those of different
\* threads are called in any order.
Handle(n, i) ==
    LET e == pending[n][i]
    IN  /\ calls < MaxCalls
        /\ calls' = calls + 1
        /\ pending' = [pending EXCEPT ![n] = SubSeq(@, 1, i - 1) \o SubSeq(@, i + 1, Len(@))]
        /\ \E r \in Responses(e) : line' = [line EXCEPT ![n] = @ \o r]
        /\ UNCHANGED <<egress, network, requests, received>>
-----------------------------------------------------------------------------
(* The federation server.                                                  *)

\* run_egress and send: the next envelope is sealed for the peer its address
\* begins with, and handed to the transport.
Transmit(n) ==
    /\ egress[n] # <<>>
    /\ LET e == Head(egress[n])
           peer == Node(e.to)
       IN  network' = network \cup
             {[sender |-> n, endpoint |-> peer, key |-> Key[n][peer], envelope |-> e]}
    /\ egress' = [egress EXCEPT ![n] = Tail(@)]
    /\ UNCHANGED <<line, pending, requests, calls, received>>

\* Sealing or the transport fails: the error is logged.
TransmitFails(n) ==
    /\ egress[n] # <<>>
    /\ egress' = [egress EXCEPT ![n] = Tail(@)]
    /\ UNCHANGED <<line, pending, network, requests, calls, received>>

\* open: the sender is a peer, and the frame opens under that peer's key.
Opens(n, f) == f.sender \in Peers[n] /\ Key[n][f.sender] = f.key

\* Mutant of Stamped: the peer's mark replaces what the envelope carried.
StampedLastHop(n, f) ==
    LET e == f.envelope
    IN  [from |-> RerootOrigin(e.from, f.sender), to |-> e.to,
         labels |-> Mark[n][f.sender],
         via |-> f.sender, crossed |-> e.crossed \cup {<<f.sender, n>>},
         dest |-> e.dest, route |-> Append(e.route, n)]

\* The opened envelope, its sender re-rooted and the edge provenance added.
Stamped(n, f) ==
    LET e == f.envelope
    IN  [from |-> RerootOrigin(e.from, f.sender), to |-> e.to,
         labels |-> e.labels \cup Mark[n][f.sender],
         via |-> f.sender, crossed |-> e.crossed \cup {<<f.sender, n>>},
         dest |-> e.dest, route |-> Append(e.route, n)]

\* receive: the transport delivers a frame, for the first time or again, and
\* it is authorized as stamped.  Local delivery is Switchboard::route, which
\* resolves the instance and injects, or fails and drops the envelope, as all
\* the errors here do: then nothing changes.  An envelope without a destination
\* is not authorized at all and fails there.
Receive(n, f) ==
    /\ f.endpoint = n
    /\ received < MaxReceived
    /\ received' = received + 1
    /\ Opens(n, f)
    /\ LET e == Stamped(n, f)
       IN  /\ <<Node(e.from), Node(e.to)>> \in Matrix[n]
           /\ line' = [line EXCEPT ![n] = Append(@, [e EXCEPT !.to = Strip(@, n)])]
    /\ UNCHANGED <<pending, egress, network, requests, calls>>
-----------------------------------------------------------------------------
Next ==
    \/ \E q \in Requests : Inject(q)
    \/ \E n \in Nodes :
         \/ Dies(n) \/ RouteRemote(n) \/ RouteLocal(n)
         \/ \E i \in DOMAIN pending[n] : Handle(n, i)
         \/ Transmit(n) \/ TransmitFails(n)
         \/ \E f \in network : Receive(n, f)

Spec == Init /\ [][Next]_vars
-----------------------------------------------------------------------------
(* Properties.                                                             *)

Elements(s) == {s[i] : i \in DOMAIN s}

\* The envelopes a node's pipeline has accepted.
Within(n) == Elements(line[n]) \cup Elements(pending[n]) \cup Elements(egress[n])

\* Origin is stamped by the edge and never asserted (federation.rs:389-393): an
\* envelope that came in from a peer has that peer's namespace in front,
\* whatever it claimed and wherever it had been before.
OriginIsTheEdge ==
    \A n \in Nodes : \A e \in Within(n) : e.via # NoNode => Node(e.from) = e.via

\* Provenance accumulates (wire.rs:247-252, "the last-hop bug"): an envelope
\* carries the mark of every peer link that it crossed, or that anything
\* crossed in response to which it was made, however many hops ago.
TaintAccumulates ==
    \A n \in Nodes : \A e \in Within(n) :
        \A link \in e.crossed : Mark[link[2]][link[1]] \subseteq e.labels

\* Each tier takes off its own segment and no other (federation.rs:411-417): a
\* handler is called where, and under the name that, the author addressed.
HandledWhereAddressed ==
    \A n \in Nodes : \A e \in Elements(pending[n]) :
        /\ e.route # <<>> => e.route[Len(e.route)] = n
        /\ [i \in DOMAIN e.dest |-> e.dest[i].name]
             = e.route \o [i \in DOMAIN e.to |-> e.to[i].name]
=============================================================================
