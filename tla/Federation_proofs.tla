-------------------------- MODULE Federation_proofs --------------------------
(***************************************************************************)
(* Proofs about module Federation, for any nodes, directories, requests    *)
(* and targets: types, origins stamped by the edge, provenance that        *)
(* accumulates, envelopes handled where their author addressed them; and   *)
(* about module Frames, for every byte size, nonce length, key and         *)
(* namespace: a frame opens as it was sealed or not at all.                *)
(***************************************************************************)
EXTENDS Federation, Frames, SequenceTheorems, TLAPS

-----------------------------------------------------------------------------
(* Sequences.                                                              *)

\* Sending appends an element (Sender::send on each channel).
LEMMA AppendTyped ==
    ASSUME NEW S, NEW s \in Seq(S), NEW x \in S
    PROVE  Append(s, x) \in Seq(S)
  OBVIOUS

\* Reinjecting appends what a handler's outcome sends.
LEMMA ConcatTyped ==
    ASSUME NEW S, NEW s \in Seq(S), NEW r \in Seq(S)
    PROVE  s \o r \in Seq(S)
  OBVIOUS

\* Receiving takes the oldest element (Receiver::recv on each channel).
LEMMA TakeTyped ==
    ASSUME NEW S, NEW s \in Seq(S), s # <<>>
    PROVE  Tail(s) \in Seq(S) /\ Head(s) \in S
  OBVIOUS

\* Any pending envelope can be taken (its worker calls the handler).
LEMMA RemoveTyped ==
    ASSUME NEW S, NEW s \in Seq(S), NEW i \in DOMAIN s
    PROVE  /\ s[i] \in S
           /\ SubSeq(s, 1, i - 1) \o SubSeq(s, i + 1, Len(s)) \in Seq(S)
  <1>1. /\ SubSeq(s, 1, i - 1) \in Seq(S)
        /\ SubSeq(s, i + 1, Len(s)) \in Seq(S)
        /\ s[i] \in S
    OBVIOUS
  <1> QED
    BY <1>1, ConcatTyped

\* What is in a sequence over S is in S.
LEMMA ElementsTyped ==
    ASSUME NEW S, NEW s \in Seq(S)
    PROVE  Elements(s) \subseteq S
  BY DEF Elements

\* A sequence over a subset is one over the set.
LEMMA SeqMonotone ==
    ASSUME NEW S, NEW T, S \subseteq T, NEW s \in Seq(S)
    PROVE  s \in Seq(T)
  OBVIOUS
-----------------------------------------------------------------------------
(* Addresses.                                                              *)

\* A segment is an address of one segment.
LEMMA OneSegment ==
    ASSUME NEW g \in Segment
    PROVE  <<g>> \in Seq(Segment) /\ <<g>> # <<>> /\ Head(<<g>>) = g
  OBVIOUS

\* A segment in front of others makes an address led by it.
LEMMA LeadingSegment ==
    ASSUME NEW g \in Segment, NEW r \in Seq(Segment)
    PROVE  <<g>> \o r \in Address /\ Node(<<g>> \o r) = g.name
  <1>1. <<g>> \in Seq(Segment)
    OBVIOUS
  <1>2. <<g>> \o r \in Seq(Segment) /\ <<g>> \o r # <<>> /\ Head(<<g>> \o r) = g
    BY <1>1
  <1> QED
    BY <1>2 DEF Address, Node

\* What a bare name's only segment is.
LEMMA FlatSegment ==
    ASSUME NEW x \in Nodes \cup Names
    PROVE  \E g \in Segment : g.name = x /\ Flat(x) = <<g>>
  <1>1. [name |-> x, keyed |-> FALSE] \in Segment
    BY DEF Segment
  <1> QED
    BY <1>1 DEF Flat

\* A bare name is an address of one segment (Address::flat).
LEMMA FlatAddress ==
    ASSUME NEW x \in Nodes \cup Names
    PROVE  Flat(x) \in Address
  <1>1. PICK g \in Segment : Flat(x) = <<g>>
    BY FlatSegment
  <1> QED
    BY <1>1, OneSegment DEF Address

\* Re-rooting puts the peer's namespace in front of a sender (reroot_origin).
LEMMA RerootLeads ==
    ASSUME NEW a \in Address, NEW x \in Nodes
    PROVE  RerootOrigin(a, x) \in Address /\ Node(RerootOrigin(a, x)) = x
  <1>1. PICK g \in Segment : g.name = x /\ Flat(x) = <<g>>
    BY FlatSegment
  <1> DEFINE r == IF Len(a) >= 2 THEN Tail(a) ELSE a
  <1>2. a \in Seq(Segment) /\ a # <<>>
    BY DEF Address
  <1>3. Tail(a) \in Seq(Segment)
    BY <1>2
  <1>4. r \in Seq(Segment) /\ RerootOrigin(a, x) = Flat(x) \o r
    BY <1>2, <1>3 DEF RerootOrigin
  <1> HIDE DEF r
  <1> QED
    BY <1>1, <1>4, LeadingSegment

\* Stripping leaves an address (receive).
LEMMA StripAddress ==
    ASSUME NEW a \in Address, NEW n \in Nodes
    PROVE  Strip(a, n) \in Address
  <1>1. a \in Seq(Segment) /\ a # <<>>
    BY DEF Address
  <1>2. Len(a) > 1 => Tail(a) \in Seq(Segment) /\ Len(Tail(a)) = Len(a) - 1
    BY <1>1
  <1>3. \A t \in Seq(Segment) : Len(t) # 0 => t # <<>>
    OBVIOUS
  <1>4. Len(a) > 1 => Len(Tail(a)) # 0
    BY <1>1, <1>2, SMTT(40)
  <1>5. Len(a) > 1 => Tail(a) \in Address
    BY <1>2, <1>3, <1>4 DEF Address
  <1> QED
    BY <1>5 DEF Strip

\* The organism of an address is one of its names (Address::organism).
LEMMA OrganismName ==
    ASSUME NEW a \in Address
    PROVE  Organism(a) \in Nodes \cup Names
  <1>1. a \in Seq(Segment) /\ a # <<>>
    BY DEF Address
  <1>2. Head(a) \in Segment /\ \A i \in DOMAIN a : a[i] \in Segment
    BY <1>1
  <1>3. \A g \in Segment : g.name \in Nodes \cup Names
    BY DEF Segment
  <1>4. FirstKeyed(a) # {} =>
          /\ (CHOOSE i \in FirstKeyed(a) : TRUE) \in FirstKeyed(a)
          /\ FirstKeyed(a) \subseteq DOMAIN a
    BY DEF FirstKeyed
  <1> QED
    BY <1>2, <1>3, <1>4 DEF Organism
-----------------------------------------------------------------------------
(* The inductive invariant: the channels hold nothing but good envelopes.  *)

\* The envelope's mark is that of every link crossed, and its origin the edge.
Good(e) ==
    /\ e \in Envelope
    /\ e.via # NoNode => Node(e.from) = e.via
    /\ \A link \in e.crossed : Mark[link[2]][link[1]] \subseteq e.labels

GoodEnvelope == {e \in Envelope : Good(e)}

\* What leaves by the egress channel is addressed to some node.
Remote == {e \in GoodEnvelope : Node(e.to) \in Nodes}

IInv ==
    /\ line \in [Nodes -> Seq(GoodEnvelope)]
    /\ pending \in [Nodes -> Seq(GoodEnvelope)]
    /\ egress \in [Nodes -> Seq(Remote)]
    /\ network \subseteq {f \in Frame : f.envelope \in GoodEnvelope}
    /\ requests \subseteq Requests
    /\ calls \in 0..MaxCalls
    /\ received \in 0..MaxReceived

\* What a host injects has crossed no link (Pipeline::inject).
LEMMA InjectedGood ==
    ASSUME NEW q \in Requests
    PROVE  [from |-> q.from, to |-> q.to, labels |-> {}, via |-> NoNode,
            crossed |-> {}, dest |-> q.to, route |-> <<>>] \in GoodEnvelope
  <1>1. q.from \in Address /\ q.to \in Address
    BY FederationAssumption
  <1>2. <<>> \in Seq(Nodes)
    OBVIOUS
  <1> DEFINE e == [from |-> q.from, to |-> q.to, labels |-> {}, via |-> NoNode,
                   crossed |-> {}, dest |-> q.to, route |-> <<>>]
  <1>3. e \in Envelope
    BY <1>1, <1>2 DEF Envelope
  <1>4. e.via = NoNode /\ e.crossed = {}
    OBVIOUS
  <1> QED
    BY <1>3, <1>4 DEF GoodEnvelope, Good

\* A response carries the provenance of what it responds to (process_message).
LEMMA ResponseGood ==
    ASSUME NEW e \in GoodEnvelope, NEW x \in Nodes \cup Names, NEW a \in Address
    PROVE  Response(e, x, a) \in GoodEnvelope
  <1>1. Flat(x) \in Address /\ <<>> \in Seq(Nodes)
    BY FlatAddress
  <1>2. /\ e \in Envelope
        /\ \A link \in e.crossed : Mark[link[2]][link[1]] \subseteq e.labels
    BY DEF GoodEnvelope, Good
  <1>3. e.labels \in SUBSET Labels /\ e.crossed \in SUBSET (Nodes \X Nodes)
    BY <1>2 DEF Envelope
  <1>4. Response(e, x, a) \in Envelope
    BY <1>1, <1>3 DEF Response, Envelope
  <1>5. /\ Response(e, x, a).via = NoNode
        /\ Response(e, x, a).crossed = e.crossed
        /\ Response(e, x, a).labels = e.labels
    BY DEF Response
  <1> QED
    BY <1>2, <1>4, <1>5 DEF GoodEnvelope, Good

\* So do all that a handler brings forth.
LEMMA ResponsesGood ==
    ASSUME NEW e \in GoodEnvelope, NEW r \in Responses(e)
    PROVE  r \in Seq(GoodEnvelope)
  <1> DEFINE self == Organism(e.to)
             call(to) == Response(e, self, to)
             ack(to) == Response(e, Organism(to), Flat(self))
             reply(x) == Response(e, self, Flat(x))
  <1>1. e.to \in Address
    BY DEF GoodEnvelope, Envelope
  <1>2. self \in Nodes \cup Names
    BY <1>1, OrganismName
  <1>3. Targets \subseteq Address
    BY FederationAssumption
  <1>4. ASSUME NEW to \in Targets
        PROVE  call(to) \in GoodEnvelope /\ ack(to) \in GoodEnvelope
    BY <1>2, <1>3, ResponseGood, FlatAddress, OrganismName
  <1>5. ASSUME NEW x \in Nodes \cup Names
        PROVE  reply(x) \in GoodEnvelope
    BY <1>2, ResponseGood, FlatAddress
  <1>6. \/ r = <<>>
        \/ \E to \in Targets : r = <<call(to)>>
        \/ \E to \in Targets : r = <<call(to), ack(to)>>
        \/ \E to \in Targets : r = <<ack(to)>>
        \/ \E x \in Nodes \cup Names : r = <<reply(x)>>
    BY DEF Responses
  <1> HIDE DEF self, call, ack, reply
  <1>7. \A f, g \in GoodEnvelope :
          <<f>> \in Seq(GoodEnvelope) /\ <<f, g>> \in Seq(GoodEnvelope)
    OBVIOUS
  <1>8. \A to \in Targets :
          /\ <<call(to)>> \in Seq(GoodEnvelope)
          /\ <<call(to), ack(to)>> \in Seq(GoodEnvelope)
          /\ <<ack(to)>> \in Seq(GoodEnvelope)
    BY <1>4, <1>7
  <1>9. \A x \in Nodes \cup Names : <<reply(x)>> \in Seq(GoodEnvelope)
    BY <1>5, <1>7
  <1>10. <<>> \in Seq(GoodEnvelope)
    OBVIOUS
  <1> QED
    BY <1>6, <1>8, <1>9, <1>10, Zenon

\* An opened frame is stamped with its edge: the peer in front of the sender,
\* and the mark of the link just crossed added (open and receive).
LEMMA StampedGood ==
    ASSUME NEW n \in Nodes, NEW f \in Frame, f.envelope \in GoodEnvelope
    PROVE  Stamped(n, f) \in GoodEnvelope
  <1> DEFINE e == f.envelope
             t == Stamped(n, f)
             link == <<f.sender, n>>
  <1>1. /\ e \in Envelope /\ f.sender \in Nodes
        /\ \A l \in e.crossed : Mark[l[2]][l[1]] \subseteq e.labels
    BY DEF GoodEnvelope, Good, Frame
  <1>2. /\ e.from \in Address /\ e.to \in Address /\ e.dest \in Address
        /\ e.labels \in SUBSET Labels /\ e.crossed \in SUBSET (Nodes \X Nodes)
        /\ e.route \in Seq(Nodes)
    BY <1>1 DEF Envelope
  <1>3. Mark[n][f.sender] \in SUBSET Labels
    BY <1>1, FederationAssumption
  <1>4. Append(e.route, n) \in Seq(Nodes)
    BY <1>2, AppendTyped
  <1>5. /\ RerootOrigin(e.from, f.sender) \in Address
        /\ Node(RerootOrigin(e.from, f.sender)) = f.sender
    BY <1>1, <1>2, RerootLeads
  <1>7. link \in Nodes \X Nodes /\ link[1] = f.sender /\ link[2] = n
    BY <1>1
  <1> HIDE DEF link
  <1>8. t = [from |-> RerootOrigin(e.from, f.sender), to |-> e.to,
             labels |-> e.labels \cup Mark[n][f.sender],
             via |-> f.sender, crossed |-> e.crossed \cup {link},
             dest |-> e.dest, route |-> Append(e.route, n)]
    BY DEF Stamped, link
  <1> HIDE DEF t, e
  <1>9. t \in Envelope
    BY <1>1, <1>2, <1>3, <1>4, <1>5, <1>7, <1>8 DEF Envelope
  <1>10. Node(t.from) = t.via
    BY <1>5, <1>8
  <1>11. \A l \in t.crossed : Mark[l[2]][l[1]] \subseteq t.labels
    <2> SUFFICES ASSUME NEW l \in t.crossed
                 PROVE  Mark[l[2]][l[1]] \subseteq t.labels
      OBVIOUS
    <2>1. t.labels = e.labels \cup Mark[n][f.sender]
      BY <1>8
    <2>2. CASE l \in e.crossed
      BY <1>1, <2>1, <2>2 DEF e
    <2>3. CASE l = link
      BY <1>7, <2>1, <2>3
    <2> QED
      BY <1>8, <2>2, <2>3
  <1>12. t \in GoodEnvelope
    BY <1>9, <1>10, <1>11 DEF GoodEnvelope, Good
  <1> QED
    BY <1>12 DEF t

\* Taking off the node's own segment changes neither origin nor mark (receive).
LEMMA StrippedGood ==
    ASSUME NEW e \in GoodEnvelope, NEW n \in Nodes
    PROVE  [e EXCEPT !.to = Strip(@, n)] \in GoodEnvelope
  <1> DEFINE t == [e EXCEPT !.to = Strip(@, n)]
  <1>1. e \in Envelope
    BY DEF GoodEnvelope
  <1>2. Strip(e.to, n) \in Address
    BY <1>1, StripAddress DEF Envelope
  <1>3. /\ t \in Envelope
        /\ t.from = e.from /\ t.via = e.via
        /\ t.crossed = e.crossed /\ t.labels = e.labels
    BY <1>1, <1>2 DEF Envelope
  <1> HIDE DEF t
  <1>4. t \in GoodEnvelope
    BY <1>3 DEF GoodEnvelope, Good
  <1> QED
    BY <1>4 DEF t
-----------------------------------------------------------------------------
(* Initially, and by every step.                                           *)

\* A pipeline starts with empty channels.
LEMMA InitGood == Init => IInv
  <1>1. <<>> \in Seq(GoodEnvelope) /\ <<>> \in Seq(Remote)
    OBVIOUS
  <1> QED
    BY <1>1, FederationAssumption DEF Init, IInv

\* Every step puts only good envelopes into channels and network.
LEMMA NextGood == IInv /\ [Next]_vars => IInv'
  <1> SUFFICES ASSUME IInv, [Next]_vars
               PROVE  IInv'
    OBVIOUS
  <1> USE DEF IInv
  <1>1. ASSUME NEW q \in Requests, Inject(q)
        PROVE  IInv'
    <2> DEFINE e == [from |-> q.from, to |-> q.to, labels |-> {}, via |-> NoNode,
                     crossed |-> {}, dest |-> q.to, route |-> <<>>]
    <2>1. e \in GoodEnvelope /\ q.at \in Nodes
      BY InjectedGood, FederationAssumption
    <2>2. line' = [line EXCEPT ![q.at] = Append(@, e)]
      BY <1>1 DEF Inject
    <2> HIDE DEF e
    <2>3. Append(line[q.at], e) \in Seq(GoodEnvelope)
      BY <2>1, AppendTyped
    <2>4. line' \in [Nodes -> Seq(GoodEnvelope)]
      BY <2>2, <2>3
    <2> QED
      BY <1>1, <2>4 DEF Inject
  <1>2. ASSUME NEW n \in Nodes, Dies(n) \/ RouteRemote(n) \/ RouteLocal(n)
        PROVE  IInv'
    <2>1. /\ Tail(line[n]) \in Seq(GoodEnvelope) /\ Head(line[n]) \in GoodEnvelope
      BY <1>2, TakeTyped DEF Dies, RouteRemote, RouteLocal
    <2>2. line' \in [Nodes -> Seq(GoodEnvelope)]
      BY <1>2, <2>1 DEF Dies, RouteRemote, RouteLocal
    <2>3. Append(pending[n], Head(line[n])) \in Seq(GoodEnvelope)
      BY <2>1, AppendTyped
    <2>4. CASE Dies(n)
      BY <2>2, <2>4 DEF Dies
    <2>5. CASE RouteRemote(n)
      <3>1. Head(line[n]) \in Remote
        BY <2>1, <2>5, FederationAssumption DEF RouteRemote, Remote
      <3>2. Append(egress[n], Head(line[n])) \in Seq(Remote)
        BY <3>1, AppendTyped
      <3> QED
        BY <2>2, <2>5, <3>2 DEF RouteRemote
    <2>6. CASE RouteLocal(n)
      BY <2>2, <2>3, <2>6 DEF RouteLocal
    <2> QED
      BY <1>2, <2>4, <2>5, <2>6
  <1>3. ASSUME NEW n \in Nodes, NEW i \in DOMAIN pending[n], Handle(n, i)
        PROVE  IInv'
    <2> DEFINE rest == SubSeq(pending[n], 1, i - 1)
                         \o SubSeq(pending[n], i + 1, Len(pending[n]))
    <2>1. pending[n][i] \in GoodEnvelope /\ rest \in Seq(GoodEnvelope)
      BY RemoveTyped
    <2>2. pending' = [pending EXCEPT ![n] = rest]
      BY <1>3 DEF Handle
    <2> HIDE DEF rest
    <2>3. pending' \in [Nodes -> Seq(GoodEnvelope)]
      BY <2>1, <2>2
    <2>4. PICK r \in Responses(pending[n][i]) : line' = [line EXCEPT ![n] = @ \o r]
      BY <1>3 DEF Handle
    <2>5. line[n] \o r \in Seq(GoodEnvelope)
      BY <2>1, ResponsesGood, ConcatTyped
    <2>6. line' \in [Nodes -> Seq(GoodEnvelope)]
      BY <2>4, <2>5
    <2>7. calls' \in 0..MaxCalls
      BY <1>3, FederationAssumption DEF Handle
    <2> QED
      BY <1>3, <2>3, <2>6, <2>7 DEF Handle
  <1>4. ASSUME NEW n \in Nodes, Transmit(n) \/ TransmitFails(n)
        PROVE  IInv'
    <2> DEFINE e == Head(egress[n])
               peer == Node(e.to)
               f == [sender |-> n, endpoint |-> peer, key |-> Key[n][peer], envelope |-> e]
    <2>1. e \in Remote /\ Tail(egress[n]) \in Seq(Remote)
      BY <1>4, TakeTyped DEF Transmit, TransmitFails
    <2>2. egress' \in [Nodes -> Seq(Remote)]
      BY <1>4, <2>1 DEF Transmit, TransmitFails
    <2>3. CASE Transmit(n)
      <3>1. e \in Envelope /\ e \in GoodEnvelope /\ peer \in Nodes
        BY <2>1 DEF Remote, GoodEnvelope
      <3>2. Key[n][peer] \in Keys
        BY <3>1, FederationAssumption
      <3> HIDE DEF e, peer
      <3>3. f \in Frame /\ f.envelope = e
        BY <3>1, <3>2 DEF Frame
      <3>4. network' = network \cup {f}
        BY <2>3 DEF Transmit, e, peer
      <3> QED
        BY <2>2, <2>3, <3>1, <3>3, <3>4 DEF Transmit
    <2>4. CASE TransmitFails(n)
      BY <2>2, <2>4 DEF TransmitFails
    <2> QED
      BY <1>4, <2>3, <2>4
  <1>5. ASSUME NEW n \in Nodes, NEW f \in network, Receive(n, f)
        PROVE  IInv'
    <2> DEFINE e == [Stamped(n, f) EXCEPT !.to = Strip(@, n)]
    <2>1. e \in GoodEnvelope
      BY StampedGood, StrippedGood
    <2>2. line' = [line EXCEPT ![n] = Append(@, e)]
      BY <1>5 DEF Receive
    <2> HIDE DEF e
    <2>3. Append(line[n], e) \in Seq(GoodEnvelope)
      BY <2>1, AppendTyped
    <2>4. line' \in [Nodes -> Seq(GoodEnvelope)]
      BY <2>2, <2>3
    <2>5. received' \in 0..MaxReceived
      BY <1>5, FederationAssumption DEF Receive
    <2> QED
      BY <1>5, <2>4, <2>5 DEF Receive
  <1>6. CASE UNCHANGED vars
    BY <1>6 DEF vars
  <1> QED
    BY <1>1, <1>2, <1>3, <1>4, <1>5, <1>6 DEF Next

\* So it is in every reachable state.
LEMMA AllGood == Spec => []IInv
  BY InitGood, NextGood, PTL DEF Spec
-----------------------------------------------------------------------------
(* Where an envelope is on its way.                                        *)

\* The names of an address's segments.
NamesOf(a) == [i \in DOMAIN a |-> a[i].name]

\* What its author addressed is the nodes it has come to and what is left.
Accounted(e) == NamesOf(e.dest) = e.route \o NamesOf(e.to)

\* It has come to n last, or was made there.
Here(n, e) == e.route # <<>> => e.route[Len(e.route)] = n

\* Its address is the node and nothing else, which no listener has for a name.
\* The node's segment is not taken off then, and the envelope dies.
NodeOnly(n, e) == Len(e.to) = 1 /\ Node(e.to) = n

RouteInv ==
    /\ \A n \in Nodes : \A e \in Elements(line[n]) : Here(n, e) /\ (Accounted(e) \/ NodeOnly(n, e))
    /\ \A n \in Nodes : \A e \in Elements(pending[n]) : Here(n, e) /\ Accounted(e)
    /\ \A n \in Nodes : \A e \in Elements(egress[n]) : Accounted(e)
    /\ \A f \in network : Accounted(f.envelope) /\ f.endpoint = Node(f.envelope.to)

\* What appending, joining, taking and removing do to what is in a sequence.
LEMMA ElementsOf ==
    ASSUME NEW S, NEW s \in Seq(S)
    PROVE  /\ \A x \in S : Elements(Append(s, x)) = Elements(s) \cup {x}
           /\ \A r \in Seq(S) : Elements(s \o r) = Elements(s) \cup Elements(r)
           /\ s # <<>> => Head(s) \in Elements(s) /\ Elements(Tail(s)) \subseteq Elements(s)
           /\ \A i \in DOMAIN s :
                /\ s[i] \in Elements(s)
                /\ Elements(SubSeq(s, 1, i - 1) \o SubSeq(s, i + 1, Len(s))) \subseteq Elements(s)
  <1>1. ASSUME NEW x \in S
        PROVE  Elements(Append(s, x)) = Elements(s) \cup {x}
    <2>1. /\ DOMAIN Append(s, x) = DOMAIN s \cup {Len(s) + 1}
          /\ Append(s, x)[Len(s) + 1] = x
          /\ \A k \in DOMAIN s : Append(s, x)[k] = s[k]
      OBVIOUS
    <2> QED
      BY <2>1 DEF Elements
  <1>2. ASSUME NEW a \in Seq(S), NEW b \in Seq(S)
        PROVE  Elements(a \o b) = Elements(a) \cup Elements(b)
    <2>1. /\ Len(a) \in Nat /\ Len(b) \in Nat /\ a \o b \in Seq(S)
          /\ DOMAIN a = 1..Len(a) /\ DOMAIN b = 1..Len(b) /\ DOMAIN (a \o b) = 1..Len(a) + Len(b)
      OBVIOUS
    <2>2. \A k \in 1..Len(a) : k \in 1..Len(a) + Len(b) /\ (a \o b)[k] = a[k]
      BY <2>1
    <2>3. \A k \in 1..Len(b) : Len(a) + k \in 1..Len(a) + Len(b) /\ (a \o b)[Len(a) + k] = b[k]
      BY <2>1
    <2>4. \A k \in 1..Len(a) + Len(b) : k \in 1..Len(a) \/ (k - Len(a) \in 1..Len(b) /\ k = Len(a) + (k - Len(a)))
      BY <2>1
    <2>5. ASSUME NEW k \in 1..Len(a) + Len(b)
          PROVE  (a \o b)[k] \in Elements(a) \cup Elements(b)
      <3>1. CASE k \in 1..Len(a)
        BY <2>1, <2>2, <3>1 DEF Elements
      <3>2. CASE k - Len(a) \in 1..Len(b) /\ k = Len(a) + (k - Len(a))
        <4>1. (a \o b)[k] = b[k - Len(a)]
          BY <2>3, <3>2
        <4> QED
          BY <2>1, <3>2, <4>1 DEF Elements
      <3> QED
        BY <2>4, <3>1, <3>2
    <2>6. Elements(a \o b) \subseteq Elements(a) \cup Elements(b)
      BY <2>1, <2>5 DEF Elements
    <2>7. Elements(a) \subseteq Elements(a \o b)
      BY <2>1, <2>2 DEF Elements
    <2>8. Elements(b) \subseteq Elements(a \o b)
      BY <2>1, <2>3 DEF Elements
    <2> QED
      BY <2>6, <2>7, <2>8
  <1>3. ASSUME s # <<>>
        PROVE  Head(s) \in Elements(s) /\ Elements(Tail(s)) \subseteq Elements(s)
    <2>1. /\ 1 \in DOMAIN s /\ Head(s) = s[1]
          /\ \A k \in DOMAIN Tail(s) : k + 1 \in DOMAIN s /\ Tail(s)[k] = s[k + 1]
      BY <1>3
    <2> QED
      BY <2>1 DEF Elements
  <1>4. ASSUME NEW i \in DOMAIN s
        PROVE  /\ s[i] \in Elements(s)
               /\ Elements(SubSeq(s, 1, i - 1) \o SubSeq(s, i + 1, Len(s))) \subseteq Elements(s)
    <2> DEFINE a == SubSeq(s, 1, i - 1)
               b == SubSeq(s, i + 1, Len(s))
    <2>1. a \in Seq(S) /\ b \in Seq(S)
      OBVIOUS
    <2>2. \A k \in DOMAIN a : k \in DOMAIN s /\ a[k] = s[k]
      OBVIOUS
    <2>3. \A k \in DOMAIN b : k + i \in DOMAIN s /\ b[k] = s[k + i]
      BY SMTT(40)
    <2>4. Elements(a \o b) = Elements(a) \cup Elements(b)
      BY <1>2, <2>1
    <2> HIDE DEF a, b
    <2>5. Elements(a) \subseteq Elements(s) /\ Elements(b) \subseteq Elements(s)
      BY <2>2, <2>3 DEF Elements
    <2> QED
      BY <2>4, <2>5 DEF Elements, a, b
  <1> QED
    BY <1>1, <1>2, <1>3, <1>4

\* There are as many names as segments.
LEMMA NamesTyped ==
    ASSUME NEW c \in Seq(Segment)
    PROVE  /\ NamesOf(c) \in Seq(Nodes \cup Names) /\ Len(NamesOf(c)) = Len(c)
           /\ \A k \in 1..Len(c) : NamesOf(c)[k] = c[k].name
  <1>1. Len(c) \in Nat /\ DOMAIN c = 1..Len(c) /\ \A k \in 1..Len(c) : c[k] \in Segment
    OBVIOUS
  <1>2. \A g \in Segment : g.name \in Nodes \cup Names
    BY DEF Segment
  <1>3. /\ NamesOf(c) \in [1..Len(c) -> Nodes \cup Names]
        /\ \A k \in 1..Len(c) : NamesOf(c)[k] = c[k].name
    BY <1>1, <1>2 DEF NamesOf
  <1>4. \A m \in Nat : \A f \in [1..m -> Nodes \cup Names] :
          f \in Seq(Nodes \cup Names) /\ Len(f) = m
    OBVIOUS
  <1> QED
    BY <1>1, <1>3, <1>4

\* Taking off the leading segment counts it to the route (receive).
LEMMA StripCounts ==
    ASSUME NEW a \in Address, Len(a) > 1, NEW r \in Seq(Nodes), Node(a) \in Nodes
    PROVE  r \o NamesOf(a) = Append(r, Node(a)) \o NamesOf(Tail(a))
  <1> DEFINE S == Nodes \cup Names
             t == Tail(a)
             n == Node(a)
  <1>1. /\ a \in Seq(Segment) /\ a # <<>> /\ a[1] \in Segment /\ n = a[1].name
        /\ t \in Seq(Segment) /\ Len(t) = Len(a) - 1
        /\ \A k \in 1..Len(t) : t[k] = a[k + 1]
    BY DEF Address, Node
  <1>2. \A c \in Seq(Segment) :
           /\ NamesOf(c) \in Seq(S) /\ Len(NamesOf(c)) = Len(c)
           /\ \A k \in 1..Len(c) : NamesOf(c)[k] = c[k].name
    BY NamesTyped
  <1>3. r \in Seq(S) /\ Append(r, n) \in Seq(S) /\ Len(Append(r, n)) = Len(r) + 1
        /\ Append(r, n)[Len(r) + 1] = n /\ \A k \in 1..Len(r) : Append(r, n)[k] = r[k]
        /\ Len(r) \in Nat /\ Len(a) \in Nat
    BY <1>1
  <1> HIDE DEF t, n, S
  <1> DEFINE x == NamesOf(a)
             y == NamesOf(t)
             q == Append(r, n)
  <1>4. /\ x \in Seq(S) /\ y \in Seq(S) /\ Len(x) = Len(a) /\ Len(y) = Len(a) - 1
        /\ x[1] = n /\ \A k \in 1..Len(a) - 1 : y[k] = x[k + 1]
    BY <1>1, <1>2, <1>3, SMTT(40)
  <1> HIDE DEF x, y, q
  <1>5. /\ r \o x \in Seq(S) /\ Len(r \o x) = Len(r) + Len(a)
        /\ q \o y \in Seq(S) /\ Len(q \o y) = Len(r) + Len(a)
    <2>1. Len(r) + 1 + (Len(a) - 1) = Len(r) + Len(a)
      BY <1>3
    <2>2. /\ r \o x \in Seq(S) /\ Len(r \o x) = Len(r) + Len(x)
          /\ q \o y \in Seq(S) /\ Len(q \o y) = Len(q) + Len(y)
      BY <1>3, <1>4, ConcatProperties DEF q
    <2> QED
      BY <1>3, <1>4, <2>1, <2>2 DEF q
  <1>6. ASSUME NEW k \in 1..Len(r) + Len(a)
        PROVE  (r \o x)[k] = (q \o y)[k]
    <2>0. k <= Len(r) \/ k = Len(r) + 1 \/ k >= Len(r) + 2
      <3>1. Len(r) \in Int /\ k \in Int
        BY <1>3
      <3> QED
        BY <3>1
    <2>1. CASE k <= Len(r)
      BY <1>3, <1>4, <2>1 DEF q
    <2>2. CASE k = Len(r) + 1
      BY <1>3, <1>4, <2>2 DEF q
    <2>3. CASE k >= Len(r) + 2
      <3>1. (r \o x)[k] = x[k - Len(r)]
        BY <1>3, <1>4, <2>3
      <3>2. (q \o y)[k] = y[k - (Len(r) + 1)]
        BY <1>3, <1>4, <2>3 DEF q
      <3>3. k - (Len(r) + 1) \in 1..Len(a) - 1 /\ (k - (Len(r) + 1)) + 1 = k - Len(r)
        BY <1>3, <2>3
      <3> QED
        BY <1>4, <3>1, <3>2, <3>3
    <2> QED
      BY <2>0, <2>1, <2>2, <2>3
  <1>7. r \o x = q \o y
    BY <1>5, <1>6, SeqEqual
  <1> QED
    BY <1>7 DEF x, y, q, t, n
\* What is made at a node is there, and has its whole way before it.
LEMMA MadeHere ==
    ASSUME NEW e \in Envelope, NEW n \in Nodes, e.route = <<>>, e.dest = e.to
    PROVE  Here(n, e) /\ Accounted(e)
  <1>1. NamesOf(e.to) \in Seq(Nodes \cup Names)
    BY NamesTyped DEF Envelope, Address
  <1>2. \A x \in Seq(Nodes \cup Names) : <<>> \o x = x
    BY ConcatEmptySeq
  <1> QED
    BY <1>1, <1>2 DEF Here, Accounted

\* A handler's responses are made where it is (process_message).
LEMMA ResponsesMade ==
    ASSUME NEW e, NEW r \in Responses(e), NEW x \in Elements(r)
    PROVE  x.route = <<>> /\ x.dest = x.to
  <1> DEFINE self == Organism(e.to)
             ack(to) == Response(e, Organism(to), Flat(self))
  <1>1. \A y, to : Response(e, y, to).route = <<>> /\ Response(e, y, to).dest = Response(e, y, to).to
    BY DEF Response
  <1>2. \/ r = <<>>
        \/ \E to \in Targets : r = <<Response(e, self, to)>>
        \/ \E to \in Targets : r = <<Response(e, self, to), ack(to)>>
        \/ \E to \in Targets : r = <<ack(to)>>
        \/ \E y \in Nodes \cup Names : r = <<Response(e, self, Flat(y))>>
    BY DEF Responses
  <1>3. \A f, g : /\ Elements(<<f>>) = {f}
                  /\ Elements(<<f, g>>) = {f, g}
    BY DEF Elements
  <1>4. Elements(<<>>) = {}
    BY DEF Elements
  <1>5. \A f, g : (r = <<f>> => x = f) /\ (r = <<f, g>> => x = f \/ x = g)
    BY <1>3
  <1>6. r # <<>>
    BY <1>4
  <1>7. \/ \E to \in Targets : x = Response(e, self, to) \/ x = ack(to)
        \/ \E y \in Nodes \cup Names : x = Response(e, self, Flat(y))
    <2> HIDE DEF self, ack
    <2> QED
      BY <1>2, <1>5, <1>6, Zenon
  <1> QED
    BY <1>1, <1>7

\* An address that is the node alone names no listener there: it has no route.
LEMMA NodeOnlyUnrouted ==
    ASSUME NEW e \in Envelope, NEW n \in Nodes, NodeOnly(n, e)
    PROVE  Organism(e.to) \notin Listeners[n]
  <1>1. PICK a : a = e.to
    OBVIOUS
  <1>2. a \in Seq(Segment) /\ Len(a) = 1 /\ Head(a).name = n
    BY <1>1 DEF NodeOnly, Node, Envelope, Address
  <1>3. DOMAIN a = {1} /\ a[1].name = n
    BY <1>2
  <1>4. FirstKeyed(a) # {} => (CHOOSE i \in FirstKeyed(a) : TRUE) = 1
    BY <1>3 DEF FirstKeyed
  <1>5. Organism(a) = n
    BY <1>2, <1>3, <1>4 DEF Organism
  <1>6. Listeners[n] \subseteq Names /\ n \notin Names
    BY FederationAssumption
  <1> QED
    BY <1>1, <1>5, <1>6

\* A node takes in an envelope that has come to it last, and takes off the
\* segment it is named by, unless that is all the address there is (receive).
LEMMA ReceivedHere ==
    ASSUME NEW n \in Nodes, NEW f \in Frame, Accounted(f.envelope),
           f.endpoint = Node(f.envelope.to), f.endpoint = n
    PROVE  LET e == [Stamped(n, f) EXCEPT !.to = Strip(@, n)]
           IN  Here(n, e) /\ (Accounted(e) \/ NodeOnly(n, e))
  <1> DEFINE e == [Stamped(n, f) EXCEPT !.to = Strip(@, n)]
  <1>1. PICK a, r, d : a = f.envelope.to /\ r = f.envelope.route /\ d = f.envelope.dest
    OBVIOUS
  <1>2. a \in Address /\ r \in Seq(Nodes)
    BY <1>1 DEF Frame, Envelope
  <1>3. e.to = Strip(a, n) /\ e.route = Append(r, n) /\ e.dest = d
    BY <1>1 DEF Stamped
  <1> HIDE DEF e
  <1>4. Len(Append(r, n)) = Len(r) + 1 /\ Append(r, n)[Len(r) + 1] = n
    BY <1>2
  <1>5. Here(n, e)
    BY <1>3, <1>4 DEF Here
  <1>6. NamesOf(d) = r \o NamesOf(a) /\ Node(a) = n
    BY <1>1 DEF Accounted
  <1>7. CASE Len(a) > 1
    <2>1. Strip(a, n) = Tail(a)
      BY <1>6, <1>7 DEF Strip
    <2>2. r \o NamesOf(a) = Append(r, n) \o NamesOf(Tail(a))
      BY <1>2, <1>6, <1>7, StripCounts
    <2> QED
      BY <1>3, <1>5, <1>6, <2>1, <2>2 DEF Accounted, e
  <1>8. CASE ~(Len(a) > 1)
    <2>1. Strip(a, n) = a
      BY <1>8 DEF Strip
    <2>2. Len(a) = 1
      <3>1. a \in Seq(Segment) /\ a # <<>>
        BY <1>2 DEF Address
      <3>2. PICK l : l = Len(a)
        OBVIOUS
      <3>3. l \in Nat /\ l # 0
        BY <3>1, <3>2
      <3> QED
        BY <1>8, <3>2, <3>3
    <2> QED
      BY <1>3, <1>5, <1>6, <2>1, <2>2 DEF NodeOnly, e
  <1> QED
    BY <1>7, <1>8
\* Nothing has gone anywhere yet.
LEMMA InitRoutes == Init => RouteInv
  <1>1. Elements(<<>>) = {}
    BY DEF Elements
  <1> QED
    BY <1>1 DEF Init, RouteInv

\* Every step leaves each envelope where its author sent it on its way.
LEMMA NextRoutes == IInv /\ RouteInv /\ [Next]_vars => RouteInv'
  <1> SUFFICES ASSUME IInv, RouteInv, [Next]_vars
               PROVE  RouteInv'
    OBVIOUS
  <1>1. ASSUME NEW n \in Nodes
        PROVE  /\ line[n] \in Seq(GoodEnvelope) /\ pending[n] \in Seq(GoodEnvelope)
               /\ egress[n] \in Seq(Remote)
               /\ line \in [Nodes -> Seq(GoodEnvelope)]
               /\ pending \in [Nodes -> Seq(GoodEnvelope)]
               /\ egress \in [Nodes -> Seq(Remote)]
    BY DEF IInv
  <1>2. GoodEnvelope \subseteq Envelope
    BY DEF GoodEnvelope
  <1>3. ASSUME NEW q \in Requests, Inject(q)
        PROVE  RouteInv'
    <2> DEFINE e == [from |-> q.from, to |-> q.to, labels |-> {}, via |-> NoNode,
                     crossed |-> {}, dest |-> q.to, route |-> <<>>]
    <2>1. e \in GoodEnvelope /\ q.at \in Nodes
      BY InjectedGood, FederationAssumption
    <2>2. Here(q.at, e) /\ Accounted(e)
      BY <1>2, <2>1, MadeHere
    <2>3. line' = [line EXCEPT ![q.at] = Append(@, e)]
      BY <1>3 DEF Inject
    <2> HIDE DEF e
    <2>4. Elements(line'[q.at]) = Elements(line[q.at]) \cup {e}
      BY <1>1, <2>1, <2>3, ElementsOf
    <2>5. \A n \in Nodes : n # q.at => line'[n] = line[n]
      BY <1>1, <2>3
    <2> QED
      BY <1>3, <2>2, <2>4, <2>5, ZenonT(60) DEF RouteInv, Inject
  <1>4. ASSUME NEW n \in Nodes, Dies(n) \/ RouteRemote(n) \/ RouteLocal(n)
        PROVE  RouteInv'
    <2>1. PICK e : e = Head(line[n])
      OBVIOUS
    <2>2. /\ e \in Elements(line[n]) /\ e \in GoodEnvelope
          /\ Elements(Tail(line[n])) \subseteq Elements(line[n])
      BY <1>1, <1>4, <2>1, ElementsOf, TakeTyped DEF Dies, RouteRemote, RouteLocal
    <2>3. Here(n, e) /\ (Accounted(e) \/ NodeOnly(n, e))
      BY <2>2 DEF RouteInv
    <2>4. line' = [line EXCEPT ![n] = Tail(@)]
      BY <1>4 DEF Dies, RouteRemote, RouteLocal
    <2>5. \A m \in Nodes : Elements(line'[m]) \subseteq Elements(line[m])
      BY <1>1, <2>2, <2>4
    <2>6. CASE Dies(n)
      BY <2>5, <2>6 DEF Dies, RouteInv
    <2>7. CASE RouteRemote(n)
      <3>1. Node(e.to) \in Peers[n] /\ Node(e.to) # n
        BY <2>1, <2>7, FederationAssumption DEF RouteRemote
      <3>2. Accounted(e) /\ e \in Remote
        BY <2>2, <2>3, <3>1, FederationAssumption DEF NodeOnly, Remote
      <3>3. egress' = [egress EXCEPT ![n] = Append(@, e)]
        BY <2>1, <2>7 DEF RouteRemote
      <3>4. Elements(egress'[n]) = Elements(egress[n]) \cup {e}
        BY <1>1, <3>2, <3>3, ElementsOf
      <3>5. \A m \in Nodes : m # n => egress'[m] = egress[m]
        BY <1>1, <3>3
      <3> QED
        BY <2>5, <2>7, <3>2, <3>4, <3>5 DEF RouteRemote, RouteInv
    <2>8. CASE RouteLocal(n)
      <3>1. Organism(e.to) \in Listeners[n]
        BY <2>1, <2>8 DEF RouteLocal
      <3>2. Accounted(e)
        BY <1>2, <2>2, <2>3, <3>1, NodeOnlyUnrouted
      <3>3. pending' = [pending EXCEPT ![n] = Append(@, e)]
        BY <2>1, <2>8 DEF RouteLocal
      <3>4. Elements(pending'[n]) = Elements(pending[n]) \cup {e}
        BY <1>1, <2>2, <3>3, ElementsOf
      <3>5. \A m \in Nodes : m # n => pending'[m] = pending[m]
        BY <1>1, <3>3
      <3> QED
        BY <2>3, <2>5, <2>8, <3>2, <3>4, <3>5, ZenonT(60) DEF RouteLocal, RouteInv
    <2> QED
      BY <1>4, <2>6, <2>7, <2>8
  <1>5. ASSUME NEW n \in Nodes, NEW i \in DOMAIN pending[n], Handle(n, i)
        PROVE  RouteInv'
    <2>1. PICK e : e = pending[n][i]
      OBVIOUS
    <2>2. PICK rest : rest = SubSeq(pending[n], 1, i - 1)
                               \o SubSeq(pending[n], i + 1, Len(pending[n]))
      OBVIOUS
    <2>3. e \in GoodEnvelope /\ Elements(rest) \subseteq Elements(pending[n])
      BY <1>1, <2>1, <2>2, ElementsOf, RemoveTyped
    <2>4. PICK r \in Responses(e) : line' = [line EXCEPT ![n] = @ \o r]
      BY <1>5, <2>1 DEF Handle
    <2>5. pending' = [pending EXCEPT ![n] = rest]
      BY <1>5, <2>2 DEF Handle
    <2>6. r \in Seq(GoodEnvelope)
      BY <2>3, ResponsesGood
    <2>7. \A x \in Elements(r) : Here(n, x) /\ Accounted(x)
      BY <1>2, <2>6, ElementsTyped, ResponsesMade, MadeHere
    <2>8. Elements(line'[n]) = Elements(line[n]) \cup Elements(r)
      BY <1>1, <2>4, <2>6, ElementsOf
    <2>9. \A m \in Nodes : m # n => line'[m] = line[m]
      BY <1>1, <2>4
    <2>10. \A m \in Nodes : Elements(pending'[m]) \subseteq Elements(pending[m])
      BY <1>1, <2>3, <2>5
    <2> QED
      BY <1>5, <2>7, <2>8, <2>9, <2>10 DEF Handle, RouteInv
  <1>6. ASSUME NEW n \in Nodes, Transmit(n) \/ TransmitFails(n)
        PROVE  RouteInv'
    <2>1. PICK e : e = Head(egress[n])
      OBVIOUS
    <2>2. /\ e \in Elements(egress[n])
          /\ Elements(Tail(egress[n])) \subseteq Elements(egress[n])
      BY <1>1, <1>6, <2>1, ElementsOf DEF Transmit, TransmitFails
    <2>3. egress' = [egress EXCEPT ![n] = Tail(@)]
      BY <1>6 DEF Transmit, TransmitFails
    <2>4. \A m \in Nodes : Elements(egress'[m]) \subseteq Elements(egress[m])
      BY <1>1, <2>2, <2>3
    <2>5. CASE Transmit(n)
      <3>1. PICK f : /\ f = [sender |-> n, endpoint |-> Node(e.to),
                             key |-> Key[n][Node(e.to)], envelope |-> e]
                     /\ network' = network \cup {f}
        BY <2>1, <2>5 DEF Transmit
      <3>2. Accounted(f.envelope) /\ f.endpoint = Node(f.envelope.to)
        BY <2>2, <3>1 DEF RouteInv
      <3> QED
        BY <2>4, <2>5, <3>1, <3>2 DEF Transmit, RouteInv
    <2>6. CASE TransmitFails(n)
      BY <2>4, <2>6 DEF TransmitFails, RouteInv
    <2> QED
      BY <1>6, <2>5, <2>6
  <1>7. ASSUME NEW n \in Nodes, NEW f \in network, Receive(n, f)
        PROVE  RouteInv'
    <2>1. PICK e : e = [Stamped(n, f) EXCEPT !.to = Strip(@, n)]
      OBVIOUS
    <2>2. f \in Frame /\ f.envelope \in GoodEnvelope
      BY DEF IInv
    <2>3. e \in GoodEnvelope
      BY <2>1, <2>2, StampedGood, StrippedGood
    <2>4. Here(n, e) /\ (Accounted(e) \/ NodeOnly(n, e))
      BY <1>7, <2>1, <2>2, ReceivedHere DEF Receive, RouteInv
    <2>5. line' = [line EXCEPT ![n] = Append(@, e)]
      BY <1>7, <2>1 DEF Receive
    <2>6. Elements(line'[n]) = Elements(line[n]) \cup {e}
      BY <1>1, <2>3, <2>5, ElementsOf
    <2>7. \A m \in Nodes : m # n => line'[m] = line[m]
      BY <1>1, <2>5
    <2> QED
      BY <1>7, <2>4, <2>6, <2>7 DEF Receive, RouteInv
  <1>8. CASE UNCHANGED vars
    BY <1>8 DEF vars, RouteInv
  <1> QED
    BY <1>3, <1>4, <1>5, <1>6, <1>7, <1>8 DEF Next
-----------------------------------------------------------------------------
(* The theorems.                                                           *)

\* What the channels hold is good, hence typed.
LEMMA GoodTyped ==
    ASSUME IInv, NEW n \in Nodes
    PROVE  /\ Within(n) \subseteq GoodEnvelope
           /\ line[n] \in Seq(Envelope) /\ pending[n] \in Seq(Envelope)
           /\ egress[n] \in Seq(Envelope)
  <1>1. /\ line[n] \in Seq(GoodEnvelope) /\ pending[n] \in Seq(GoodEnvelope)
        /\ egress[n] \in Seq(Remote) /\ Remote \subseteq GoodEnvelope
    BY DEF IInv, Remote
  <1>2. egress[n] \in Seq(GoodEnvelope)
    BY <1>1, SeqMonotone
  <1>3. GoodEnvelope \subseteq Envelope
    BY DEF GoodEnvelope
  <1> QED
    BY <1>1, <1>2, <1>3, ElementsTyped, SeqMonotone DEF Within

\* Channels, frames and bounds are of their types (the Envelope of wire.rs and
\* the frame of federation.rs), for any topology.
THEOREM TypeCorrect == Spec => []TypeOK
  <1>1. IInv => TypeOK
    <2> SUFFICES ASSUME IInv PROVE TypeOK
      OBVIOUS
    <2>1. /\ line \in [Nodes -> Seq(Envelope)]
          /\ pending \in [Nodes -> Seq(Envelope)]
          /\ egress \in [Nodes -> Seq(Envelope)]
      BY GoodTyped DEF IInv
    <2> QED
      BY <2>1 DEF IInv, TypeOK
  <1> QED
    BY <1>1, AllGood, PTL

\* Whatever came in from a peer bears that peer's namespace, in any topology,
\* whatever the sender claimed (open and reroot_origin).
THEOREM OriginStamped == Spec => []OriginIsTheEdge
  <1>1. IInv => OriginIsTheEdge
    BY GoodTyped DEF OriginIsTheEdge, GoodEnvelope, Good
  <1> QED
    BY <1>1, AllGood, PTL

\* No number of hops, relays and responses sheds the mark of a peer link
\* (receive's Provenance::union and process_message's carried provenance).
THEOREM TaintIsKept == Spec => []TaintAccumulates
  <1>1. IInv => TaintAccumulates
    BY GoodTyped DEF TaintAccumulates, GoodEnvelope, Good
  <1> QED
    BY <1>1, AllGood, PTL

\* A handler is called at the node, and under the name, that the author of the
\* envelope addressed, by whatever way of relays it came: every node on the way
\* takes off its own segment and no other (receive, federation.rs:411-417).
THEOREM AddressedHandled == Spec => []HandledWhereAddressed
  <1>1. Init => RouteInv
    BY InitRoutes
  <1>2. IInv /\ RouteInv /\ [Next]_vars => RouteInv'
    BY NextRoutes
  <1>3. RouteInv => HandledWhereAddressed
    BY DEF RouteInv, HandledWhereAddressed, Here, Accounted, NamesOf
  <1> QED
    BY <1>1, <1>2, <1>3, AllGood, PTL DEF Spec
-----------------------------------------------------------------------------
(* What goes between two nodes: frames (module Frames).                    *)

Symbol == Byte \cup {Ct}

\* A sealed frame.
Sealed(s, nonce) == EncodeHeader(s) \o nonce \o <<Ct>>

\* What the cipher was made with; the frame is the one it was made for just if
\* it has not been damaged; and a frame's first bytes are bytes.
CipherOK ==
    \E key \in PeerKeys, nonce \in Nonces :
        /\ cipher = Cipher(key, nonce, EncodeHeader(sender))
        /\ damaged <=> frame # Sealed(sender, nonce)

FrameOK ==
    /\ sender \in Seq(Byte) /\ Utf8(sender)
    /\ frame \in Seq(Symbol)
    /\ \A i \in 1..4 : i <= Len(frame) => frame[i] \in Byte
    /\ damaged \in BOOLEAN

FrameInv == FrameOK /\ CipherOK /\ OpensAsSealed /\ IntactOpens
-----------------------------------------------------------------------------
(* Headers.                                                                *)

LEMMA BytesAreNumbers == Byte \subseteq Nat /\ 0 \in Byte /\ 1 \in Byte
  BY FramesAssumption DEF Byte

LEMMA NamesAreBytes == Namespaces \subseteq Seq(Byte)
  BY DEF Namespaces, SeqOf

\* A sequence is its first part and the rest.
LEMMA Split ==
    ASSUME NEW S, NEW f \in Seq(S), NEW n \in Nat, n <= Len(f)
    PROVE  /\ SubSeq(f, 1, n) \in Seq(S) /\ SubSeq(f, n + 1, Len(f)) \in Seq(S)
           /\ Len(SubSeq(f, 1, n)) = n
           /\ f = SubSeq(f, 1, n) \o SubSeq(f, n + 1, Len(f))
  <1>1. SubSeq(f, 1, n) \in Seq(S) /\ Len(SubSeq(f, 1, n)) = n
    OBVIOUS
  <1>2. SubSeq(f, n + 1, Len(f)) \in Seq(S)
    OBVIOUS
  <1>3. 1 \in 1..Len(f) + 1 /\ n \in 1 - 1..Len(f) /\ Len(f) \in n..Len(f)
    OBVIOUS
  <1>4. SubSeq(f, 1, n) \o SubSeq(f, n + 1, Len(f)) = SubSeq(f, 1, Len(f))
    BY <1>3, ConcatAdjacentSubSeq, Zenon
  <1>5. SubSeq(f, 1, Len(f)) = f
    BY SubSeqFull, Zenon
  <1>6. QED
    BY <1>1, <1>2, <1>4, <1>5, Zenon

\* The end of a first part.
LEMMA PartOfPart ==
    ASSUME NEW S, NEW f \in Seq(S), NEW n \in Nat, n <= Len(f), NEW m \in Nat \ {0}
    PROVE  SubSeq(SubSeq(f, 1, n), m, n) = SubSeq(f, m, n)
  OBVIOUS

\* Two bytes, two bytes and a name.
LEMMA Pairs ==
    ASSUME NEW S, NEW a \in S, NEW b \in S, NEW c \in S, NEW d \in S
    PROVE  <<a, b>> \o <<c, d>> = <<a, b, c, d>>
  <1>1. <<a, b>> \in Seq(S) /\ <<c, d>> \in Seq(S) /\ <<a, b, c, d>> \in Seq(S)
    OBVIOUS
  <1>2. <<a, b>> \o <<c, d>> \in Seq(S) /\ Len(<<a, b>> \o <<c, d>>) = 4
    BY <1>1
  <1>3. \A i \in 1..4 : (<<a, b>> \o <<c, d>>)[i] = <<a, b, c, d>>[i]
    OBVIOUS
  <1>4. /\ Len(<<a, b>> \o <<c, d>>) = Len(<<a, b, c, d>>)
        /\ \A i \in 1..Len(<<a, b>> \o <<c, d>>) : (<<a, b>> \o <<c, d>>)[i] = <<a, b, c, d>>[i]
    BY <1>2, <1>3
  <1>5. QED
    BY <1>1, <1>2, <1>4, SeqEqual, Zenon

LEMMA Fronted ==
    ASSUME NEW S, NEW p \in Seq(S), Len(p) = 4, NEW s \in Seq(S)
    PROVE  /\ p \o s \in Seq(S)
           /\ Len(p \o s) = 4 + Len(s)
           /\ SubSeq(p \o s, 5, 4 + Len(s)) = s
  <1> DEFINE q == p \o s
  <1>1. /\ q \in Seq(S) /\ Len(q) = Len(p) + Len(s)
        /\ \A i \in 1..Len(p) + Len(s) : q[i] = IF i <= Len(p) THEN p[i] ELSE s[i - Len(p)]
    BY ConcatProperties, Zenon
  <1>2. Len(s) \in Nat
    OBVIOUS
  <1> HIDE DEF q
  <1>3. q \in Seq(S) /\ Len(q) = 4 + Len(s) /\ \A i \in 1..Len(s) : q[4 + i] = s[i]
    BY <1>1, <1>2
  <1> DEFINE r == SubSeq(q, 5, 4 + Len(s))
  <1>4. r \in Seq(S) /\ Len(r) = Len(s) /\ \A i \in 1..Len(s) : r[i] = q[4 + i]
    BY <1>2, <1>3
  <1> HIDE DEF r
  <1>5. \A i \in 1..Len(r) : r[i] = s[i]
    BY <1>3, <1>4
  <1>6. r = s
    BY <1>4, <1>5, SeqEqual, Zenon
  <1>7. QED
    BY <1>3, <1>6 DEF q, r

\* A length is written in two bytes.
LEMMA LengthBytes ==
    ASSUME NEW n \in Nat
    PROVE  (n \div Base) % Base \in Byte /\ n % Base \in Byte
  BY FramesAssumption DEF Byte

\* A header: four bytes, then the name.
LEMMA HeaderShape ==
    ASSUME NEW s \in Seq(Byte)
    PROVE  /\ EncodeHeader(s) \in Seq(Byte)
           /\ Len(EncodeHeader(s)) = 4 + Len(s)
           /\ SubSeq(EncodeHeader(s), 5, 4 + Len(s)) = s
  <1> DEFINE b1 == (Len(s) \div Base) % Base
             b2 == Len(s) % Base
             p == <<VERSION, AUTH_PSK, b1, b2>>
  <1>1. VERSION \in Byte /\ AUTH_PSK \in Byte
    BY BytesAreNumbers DEF VERSION, AUTH_PSK
  <1>2. b1 \in Byte /\ b2 \in Byte
    BY LengthBytes
  <1>3. EncodeHeader(s) = (<<VERSION, AUTH_PSK>> \o <<b1, b2>>) \o s
    BY DEF EncodeHeader, U16
  <1> HIDE DEF b1, b2
  <1>4. <<VERSION, AUTH_PSK>> \o <<b1, b2>> = p
    BY <1>1, <1>2, Pairs
  <1>5. p \in Seq(Byte) /\ Len(p) = 4
    BY <1>1, <1>2
  <1> HIDE DEF p
  <1>6. p \o s \in Seq(Byte) /\ Len(p \o s) = 4 + Len(s) /\ SubSeq(p \o s, 5, 4 + Len(s)) = s
    BY <1>5, Fronted, Zenon
  <1>7. EncodeHeader(s) = p \o s
    BY <1>3, <1>4
  <1>8. QED
    BY <1>6, <1>7, Zenon

LEMMA SealedShape ==
    ASSUME NEW s \in Seq(Byte), NEW nonce \in Nonces
    PROVE  /\ nonce \in Seq(Byte) /\ Len(nonce) = NONCE_LEN
           /\ Sealed(s, nonce) \in Seq(Symbol)
           /\ \A i \in 1..4 : Sealed(s, nonce)[i] \in Byte
  <1> DEFINE h == EncodeHeader(s)
  <1>1. nonce \in Seq(Byte) /\ Len(nonce) = NONCE_LEN
    BY FramesAssumption DEF Nonces
  <1>2. h \in Seq(Byte) /\ Len(h) = 4 + Len(s)
    BY HeaderShape
  <1>3. Sealed(s, nonce) = h \o nonce \o <<Ct>>
    BY DEF Sealed
  <1> HIDE DEF h
  <1>4. h \in Seq(Symbol) /\ nonce \in Seq(Symbol) /\ <<Ct>> \in Seq(Symbol)
    BY <1>1, <1>2 DEF Symbol
  <1>5. h \o nonce \in Seq(Symbol) /\ \A i \in 1..4 : (h \o nonce)[i] = h[i] /\ h[i] \in Byte
    BY <1>1, <1>2, <1>4
  <1>6. Len(h \o nonce) >= 4
    BY <1>1, <1>2
  <1>7. QED
    BY <1>1, <1>3, <1>4, <1>5, <1>6, SMTT(40)
-----------------------------------------------------------------------------
(* Opening.                                                                *)

\* A product of numbers is a number.
LEMMA ProductIsNatural == ASSUME NEW a \in Nat, NEW b \in Nat PROVE a * b \in Nat
  OBVIOUS

\* What parse_header finds in a frame it does not refuse.
LEMMA ParsedShape ==
    ASSUME NEW f \in Seq(Symbol), \A i \in 1..4 : i <= Len(f) => f[i] \in Byte,
           "error" \notin DOMAIN ParseHeader(f)
    PROVE  \E end \in 4..Len(f) :
             /\ ParseHeader(f).header = SubSeq(f, 1, end)
             /\ ParseHeader(f).sender = SubSeq(f, 5, end)
  <1> DEFINE end == 4 + f[3] * Base + f[4]
  <1>1. \A e : DOMAIN Fails(e) = {"error"}
    BY DEF Fails
  <1>2. Len(f) >= 4 /\ ParseHeader(f) # Fails("MalformedFrame")
        /\ ParseHeader(f) # Fails("UnsupportedVersion") /\ ParseHeader(f) # Fails("UnsupportedAuth")
    BY <1>1 DEF ParseHeader
  <1>3. f[3] \in Nat /\ f[4] \in Nat /\ Base \in Nat
    <2>1. 3 \in 1..4 /\ 4 \in 1..4 /\ 3 <= Len(f) /\ 4 <= Len(f)
      BY <1>2
    <2>2. f[3] \in Byte /\ f[4] \in Byte
      BY <2>1
    <2>3. QED
      BY <2>2, BytesAreNumbers, FramesAssumption
  <1>4. end \in Nat /\ end >= 4
    <2>1. f[3] * Base \in Nat
      BY <1>3, ProductIsNatural
    <2>2. QED
      BY <1>3, <2>1, SMTT(40)
  <1>5. ~(Len(f) < end) /\ ParseHeader(f) = [header |-> SubSeq(f, 1, end), sender |-> SubSeq(f, 5, end)]
    BY <1>2 DEF ParseHeader
  <1> HIDE DEF end
  <1>6. end \in 4..Len(f)
    BY <1>4, <1>5
  <1>7. QED
    BY <1>5, <1>6

\* The parts of a sealed frame may be joined from its end.
LEMMA SealedJoined ==
    ASSUME NEW s \in Seq(Byte), NEW nonce \in Nonces
    PROVE  Sealed(s, nonce) = EncodeHeader(s) \o (nonce \o <<Ct>>)
  <1> DEFINE h == EncodeHeader(s)
             c == <<Ct>>
  <1>1. Seq(Byte) \subseteq Seq(Symbol)
    BY DEF Symbol
  <1>2. h \in Seq(Byte)
    BY HeaderShape, Zenon
  <1>3. nonce \in Seq(Byte)
    BY SealedShape, Zenon
  <1>4. c \in Seq(Symbol)
    BY DEF Symbol
  <1>5. Sealed(s, nonce) = (h \o nonce) \o c
    BY DEF Sealed
  <1> HIDE DEF h, c
  <1>6. (h \o nonce) \o c = h \o (nonce \o c)
    BY <1>1, <1>2, <1>3, <1>4, ConcatAssociative, SMTT(40)
  <1>7. QED
    BY <1>5, <1>6 DEF h, c

\* A frame in three parts that are a header, a nonce and the ciphertext is the
\* sealed one, and names its sender.
LEMMA PartsMakeFrame ==
    \A f \in Seq(Symbol), s \in Seq(Byte), nonce \in Nonces : \A end \in 4..Len(f) : \A body :
        /\ body = SubSeq(f, end + 1, Len(f))
        /\ SubSeq(f, 1, end) = EncodeHeader(s)
        /\ Len(body) >= NONCE_LEN
        /\ SubSeq(body, 1, NONCE_LEN) = nonce
        /\ SubSeq(body, NONCE_LEN + 1, Len(body)) = <<Ct>>
        => f = Sealed(s, nonce) /\ SubSeq(f, 5, end) = s
  <1> TAKE f \in Seq(Symbol), s \in Seq(Byte), nonce \in Nonces
  <1> TAKE end \in 4..Len(f)
  <1> TAKE body
  <1>0. HAVE /\ body = SubSeq(f, end + 1, Len(f))
             /\ SubSeq(f, 1, end) = EncodeHeader(s)
             /\ Len(body) >= NONCE_LEN
             /\ SubSeq(body, 1, NONCE_LEN) = nonce
             /\ SubSeq(body, NONCE_LEN + 1, Len(body)) = <<Ct>>
  <1> DEFINE h == EncodeHeader(s)
             c == <<Ct>>
  <1>1. end \in Nat /\ end <= Len(f) /\ NONCE_LEN \in Nat
    BY FramesAssumption
  <1>2. Len(SubSeq(f, 1, end)) = end /\ body \in Seq(Symbol) /\ f = SubSeq(f, 1, end) \o body
    BY <1>0, <1>1, Split, Zenon
  <1>3. body = SubSeq(body, 1, NONCE_LEN) \o SubSeq(body, NONCE_LEN + 1, Len(body))
    <2>1. NONCE_LEN <= Len(body)
      BY <1>0, <1>1, <1>2
    <2>2. QED
      BY <1>1, <1>2, <2>1, Split, Zenon
  <1>4. f = h \o (nonce \o c)
    BY <1>0, <1>2, <1>3, Zenon
  <1>5. /\ h \in Seq(Byte) /\ Len(h) = 4 + Len(s)
        /\ SubSeq(h, 5, 4 + Len(s)) = s
    BY HeaderShape, Zenon
  <1>6. SubSeq(f, 1, end) = h
    BY <1>0
  <1> HIDE DEF h, c
  <1>7. f = Sealed(s, nonce)
    BY <1>4, SealedJoined DEF h, c
  <1>8. SubSeq(f, 5, end) = s
    <2>1. end = 4 + Len(s)
      BY <1>2, <1>5, <1>6, Zenon
    <2>2. SubSeq(SubSeq(f, 1, end), 5, end) = SubSeq(f, 5, end)
      <3>1. 5 \in Nat \ {0}
        OBVIOUS
      <3>2. QED
        BY <1>1, <3>1, PartOfPart, Zenon
    <2>3. QED
      BY <2>1, <2>2, <1>5, <1>6, Zenon
  <1>9. QED
    BY <1>7, <1>8

\* What OpenBody opens: a body that is the nonce and the ciphertext of the
\* cipher, under the header it is bound to.
LEMMA OpenedShape ==
    ASSUME NEW h, NEW body, "sender" \in DOMAIN OpenBody(h, body)
    PROVE  /\ OpenBody(h, body).sender = h.sender
           /\ ~(Len(body) < NONCE_LEN)
           /\ SubSeq(body, NONCE_LEN + 1, Len(body)) = <<Ct>>
           /\ cipher = Cipher(directory[h.sender], SubSeq(body, 1, NONCE_LEN), h.header)
  <1>1. \A e : "sender" \notin DOMAIN Fails(e)
    BY DEF Fails
  <1>2. /\ OpenBody(h, body) = [sender |-> h.sender]
        /\ ~(Len(body) < NONCE_LEN)
        /\ Decrypts(directory[h.sender], SubSeq(body, 1, NONCE_LEN), h.header,
                    SubSeq(body, NONCE_LEN + 1, Len(body)))
    BY <1>1, Zenon DEF OpenBody
  <1>3. QED
    BY <1>2 DEF Decrypts

\* Division with remainder.
LEMMA TwoBytes ==
    ASSUME NEW n \in Nat
    PROVE  n < Base * Base => ((n \div Base) % Base) * Base + (n % Base) = n
  <1> SUFFICES ASSUME n < Base * Base
               PROVE  ((n \div Base) % Base) * Base + (n % Base) = n
    OBVIOUS
  <1> DEFINE high == n \div Base
             low == n % Base
  <1>1. Base \in Nat /\ Base > 1
    BY FramesAssumption
  <1>2. high \in Nat /\ low \in 0..Base - 1 /\ n = Base * high + low
    BY <1>1
  <1> HIDE DEF high, low
  <1>3. high < Base
    BY <1>1, <1>2
  <1>4. high % Base = high
    BY <1>1, <1>2, <1>3
  <1>5. high * Base + low = n
    BY <1>1, <1>2
  <1>6. QED
    BY <1>4, <1>5 DEF high, low

\* and two bytes write no more than that.
LEMMA TwoBytesBound ==
    ASSUME NEW a \in Byte, NEW b \in Byte
    PROVE  a * Base + b \in Nat /\ a * Base + b < Base * Base
  BY FramesAssumption DEF Byte

\* Three sequences joined, and the parts of them.
LEMMA Joined ==
    ASSUME NEW S, NEW h \in Seq(S), NEW n \in Seq(S), NEW c \in S
    PROVE  LET f == h \o (n \o <<c>>)
               body == n \o <<c>>
           IN  /\ f \in Seq(S) /\ Len(f) = Len(h) + Len(n) + 1
               /\ \A i \in 1..Len(h) : f[i] = h[i]
               /\ SubSeq(f, 1, Len(h)) = h
               /\ SubSeq(f, Len(h) + 1, Len(f)) = body
               /\ Len(body) = Len(n) + 1
               /\ SubSeq(body, 1, Len(n)) = n
               /\ SubSeq(body, Len(n) + 1, Len(body)) = <<c>>
  <1> DEFINE body == n \o <<c>>
             f == h \o body
  <1>1. Len(h) \in Nat /\ Len(n) \in Nat /\ <<c>> \in Seq(S) /\ Len(<<c>>) = 1
    OBVIOUS
  <1>2. /\ body \in Seq(S) /\ Len(body) = Len(n) + 1
        /\ \A i \in 1..Len(n) : body[i] = n[i]
        /\ body[Len(n) + 1] = c
    BY <1>1, ConcatProperties
  <1> HIDE DEF body
  <1>3. /\ f \in Seq(S) /\ Len(f) = Len(h) + Len(body)
        /\ \A i \in 1..Len(h) : f[i] = h[i]
        /\ \A i \in 1..Len(body) : f[Len(h) + i] = body[i]
    <2>1. /\ f \in Seq(S) /\ Len(f) = Len(h) + Len(body)
          /\ \A i \in 1..Len(h) + Len(body) : f[i] = IF i <= Len(h) THEN h[i] ELSE body[i - Len(h)]
      BY <1>2, ConcatProperties, Zenon
    <2> HIDE DEF f
    <2>2. Len(body) \in Nat
      BY <1>2
    <2>3. \A i \in 1..Len(h) : i \in 1..Len(h) + Len(body) /\ i <= Len(h)
      BY <1>1, <2>2
    <2>4. \A i \in 1..Len(body) : /\ Len(h) + i \in 1..Len(h) + Len(body)
                                   /\ ~(Len(h) + i <= Len(h)) /\ (Len(h) + i) - Len(h) = i
      BY <1>1, <2>2
    <2>5. \A i \in 1..Len(h) : f[i] = h[i]
      BY <2>1, <2>3
    <2>6. \A i \in 1..Len(body) : f[Len(h) + i] = body[i]
      BY <2>1, <2>4
    <2>7. QED
      BY <2>1, <2>5, <2>6
  <1> HIDE DEF f
  <1>4. SubSeq(f, 1, Len(h)) = h
    <2>1. /\ SubSeq(f, 1, Len(h)) \in Seq(S) /\ Len(SubSeq(f, 1, Len(h))) = Len(h)
          /\ \A i \in 1..Len(h) : SubSeq(f, 1, Len(h))[i] = h[i]
      BY <1>1, <1>2, <1>3
    <2>2. QED
      BY <2>1, SeqEqual
  <1>5. SubSeq(f, Len(h) + 1, Len(f)) = body
    <2>1. /\ SubSeq(f, Len(h) + 1, Len(f)) \in Seq(S)
          /\ Len(SubSeq(f, Len(h) + 1, Len(f))) = Len(body)
          /\ \A i \in 1..Len(body) : SubSeq(f, Len(h) + 1, Len(f))[i] = body[i]
      BY <1>1, <1>2, <1>3
    <2>2. QED
      BY <1>2, <2>1, SeqEqual
  <1>6. SubSeq(body, 1, Len(n)) = n
    <2>1. /\ SubSeq(body, 1, Len(n)) \in Seq(S) /\ Len(SubSeq(body, 1, Len(n))) = Len(n)
          /\ \A i \in 1..Len(n) : SubSeq(body, 1, Len(n))[i] = n[i]
      BY <1>1, <1>2
    <2>2. QED
      BY <2>1, SeqEqual
  <1>7. SubSeq(body, Len(n) + 1, Len(body)) = <<c>>
    <2>1. /\ SubSeq(body, Len(n) + 1, Len(body)) \in Seq(S)
          /\ Len(SubSeq(body, Len(n) + 1, Len(body))) = 1
          /\ SubSeq(body, Len(n) + 1, Len(body))[1] = c
      BY <1>1, <1>2
    <2>2. /\ Len(SubSeq(body, Len(n) + 1, Len(body))) = Len(<<c>>)
          /\ \A i \in 1..Len(SubSeq(body, Len(n) + 1, Len(body))) :
                SubSeq(body, Len(n) + 1, Len(body))[i] = <<c>>[i]
      BY <1>1, <2>1
    <2>3. QED
      BY <1>1, <2>1, <2>2, SeqEqual
  <1>8. QED
    BY <1>2, <1>3, <1>4, <1>5, <1>6, <1>7 DEF f, body

\* What parse_header and open find in a sealed frame.
LEMMA SealedParts ==
    ASSUME NEW s \in Seq(Byte), NEW nonce \in Nonces
    PROVE  LET f == Sealed(s, nonce)
               end == 4 + Len(s)
               body == SubSeq(f, end + 1, Len(f))
           IN  /\ Len(f) >= end /\ Len(EncodeHeader(s)) = end
               /\ f[1] = VERSION /\ f[2] = AUTH_PSK
               /\ f[3] = (Len(s) \div Base) % Base /\ f[4] = Len(s) % Base
               /\ SubSeq(f, 1, end) = EncodeHeader(s) /\ SubSeq(f, 5, end) = s
               /\ Len(body) = NONCE_LEN + 1
               /\ SubSeq(body, 1, NONCE_LEN) = nonce
               /\ SubSeq(body, NONCE_LEN + 1, Len(body)) = <<Ct>>
  <1> DEFINE h == EncodeHeader(s)
             b1 == (Len(s) \div Base) % Base
             b2 == Len(s) % Base
             p == <<VERSION, AUTH_PSK, b1, b2>>
             f == Sealed(s, nonce)
  <1>1. /\ h \in Seq(Byte) /\ Len(h) = 4 + Len(s) /\ SubSeq(h, 5, 4 + Len(s)) = s
        /\ nonce \in Seq(Byte) /\ Len(nonce) = NONCE_LEN
        /\ Len(s) \in Nat /\ NONCE_LEN \in Nat
    <2>1. h \in Seq(Byte) /\ Len(h) = 4 + Len(s) /\ SubSeq(h, 5, 4 + Len(s)) = s
      BY HeaderShape
    <2>2. nonce \in Seq(Byte) /\ Len(nonce) = NONCE_LEN
      BY SealedShape
    <2> HIDE DEF h
    <2>3. QED
      BY <2>1, <2>2, FramesAssumption
  <1>2. h[1] = VERSION /\ h[2] = AUTH_PSK /\ h[3] = b1 /\ h[4] = b2
    <2>1. VERSION \in Byte /\ AUTH_PSK \in Byte /\ b1 \in Byte /\ b2 \in Byte
      BY BytesAreNumbers, LengthBytes DEF VERSION, AUTH_PSK
    <2>2. h = (<<VERSION, AUTH_PSK>> \o <<b1, b2>>) \o s
      BY DEF EncodeHeader, U16
    <2> HIDE DEF b1, b2, h
    <2>3. <<VERSION, AUTH_PSK>> \o <<b1, b2>> = p
      BY <2>1, Pairs
    <2>4. p \in Seq(Byte) /\ Len(p) = 4 /\ p[1] = VERSION /\ p[2] = AUTH_PSK /\ p[3] = b1 /\ p[4] = b2
      BY <2>1
    <2> HIDE DEF p
    <2>5. \A i \in 1..4 : (p \o s)[i] = p[i]
      <3>1. \A i \in 1..Len(p) + Len(s) : (p \o s)[i] = IF i <= Len(p) THEN p[i] ELSE s[i - Len(p)]
        BY <2>4, ConcatProperties, Zenon
      <3>2. \A i \in 1..4 : i \in 1..Len(p) + Len(s) /\ i <= Len(p)
        BY <1>1, <2>4
      <3>3. QED
        BY <3>1, <3>2
    <2>6. QED
      BY <2>2, <2>3, <2>4, <2>5
  <1>3. f = h \o (nonce \o <<Ct>>)
    BY SealedJoined
  <1>4. h \in Seq(Symbol) /\ nonce \in Seq(Symbol) /\ Ct \in Symbol
    BY <1>1 DEF Symbol
  <1> HIDE DEF h, f, b1, b2
  <1>5. /\ f \in Seq(Symbol) /\ Len(f) = Len(h) + Len(nonce) + 1
        /\ \A i \in 1..Len(h) : f[i] = h[i]
        /\ SubSeq(f, 1, Len(h)) = h
        /\ SubSeq(f, Len(h) + 1, Len(f)) = nonce \o <<Ct>>
        /\ Len(nonce \o <<Ct>>) = Len(nonce) + 1
        /\ SubSeq(nonce \o <<Ct>>, 1, Len(nonce)) = nonce
        /\ SubSeq(nonce \o <<Ct>>, Len(nonce) + 1, Len(nonce \o <<Ct>>)) = <<Ct>>
    BY <1>3, <1>4, Joined, SMTT(40)
  <1>6. SubSeq(f, 5, 4 + Len(s)) = s
    <2>1. SubSeq(SubSeq(f, 1, 4 + Len(s)), 5, 4 + Len(s)) = SubSeq(f, 5, 4 + Len(s))
      <3>1. 5 \in Nat \ {0} /\ 4 + Len(s) \in Nat /\ 4 + Len(s) <= Len(f)
        BY <1>1, <1>5
      <3>2. QED
        BY <1>5, <3>1, PartOfPart
    <2>2. QED
      BY <1>1, <1>5, <2>1
  <1>7. f[1] = VERSION /\ f[2] = AUTH_PSK /\ f[3] = b1 /\ f[4] = b2
    BY <1>1, <1>2, <1>5
  <1>8. SubSeq(f, 4 + Len(s) + 1, Len(f)) = nonce \o <<Ct>>
    BY <1>1, <1>5
  <1>9. /\ Len(f) >= 4 + Len(s) /\ SubSeq(f, 1, 4 + Len(s)) = h
        /\ Len(nonce \o <<Ct>>) = NONCE_LEN + 1
        /\ SubSeq(nonce \o <<Ct>>, 1, NONCE_LEN) = nonce
        /\ SubSeq(nonce \o <<Ct>>, NONCE_LEN + 1, Len(nonce \o <<Ct>>)) = <<Ct>>
    BY <1>1, <1>5
  <1>10. QED
    BY <1>1, <1>6, <1>7, <1>8, <1>9 DEF h, f, b1, b2
-----------------------------------------------------------------------------
(* The invariant.                                                          *)

LEMMA InitOK == FrameInit => FrameInv
  <1> SUFFICES ASSUME FrameInit PROVE FrameInv
    OBVIOUS
  <1>1. PICK key \in PeerKeys, nonce \in Nonces :
           cipher = Cipher(key, nonce, EncodeHeader(sender)) /\ frame = Sealed(sender, nonce)
    BY DEF FrameInit, Sealed
  <1>2. sender \in Seq(Byte) /\ Utf8(sender)
    BY NamesAreBytes DEF FrameInit, Namespaces
  <1>3. FrameOK
    <2>1. frame \in Seq(Symbol) /\ \A i \in 1..4 : frame[i] \in Byte
      BY <1>1, <1>2, SealedShape, Zenon
    <2>2. QED
      BY <1>2, <2>1 DEF FrameOK, FrameInit
  <1>4. CipherOK
    BY <1>1 DEF CipherOK, FrameInit
  <1>5. OpensAsSealed /\ IntactOpens
    BY DEF OpensAsSealed, IntactOpens, Opened, FrameInit
  <1>6. QED
    BY <1>3, <1>4, <1>5 DEF FrameInv

\* A byte written over another, or an end lost, gives a frame of another
\* shape: still one of symbols, and not the one that was sealed.
LEMMA DamageOK ==
    ASSUME FrameInv, Damage \/ LoseEnd
    PROVE  FrameInv'
  <1>1. PICK key \in PeerKeys, nonce \in Nonces :
           cipher = Cipher(key, nonce, EncodeHeader(sender)) /\ frame = Sealed(sender, nonce)
    BY DEF FrameInv, CipherOK, Damage, LoseEnd
  <1>2. frame \in Seq(Symbol) /\ \A i \in 1..4 : i <= Len(frame) => frame[i] \in Byte
    BY DEF FrameInv, FrameOK
  <1>3. UNCHANGED <<sender, cipher, decodes, directory, result>> /\ result = None /\ damaged' = TRUE
    BY DEF Damage, LoseEnd
  <1>4. /\ frame' \in Seq(Symbol) /\ \A i \in 1..4 : i <= Len(frame') => frame'[i] \in Byte
        /\ frame' # frame
    <2>1. CASE Damage
      <3>1. PICK i \in DOMAIN frame, b \in Byte : b # frame[i] /\ frame' = [frame EXCEPT ![i] = b]
        BY <2>1 DEF Damage
      <3>2. b \in Symbol
        BY DEF Symbol
      <3>3. frame' \in Seq(Symbol) /\ Len(frame') = Len(frame)
        BY <1>2, <3>1, <3>2
      <3>4. frame'[i] = b /\ \A j \in DOMAIN frame : j # i => frame'[j] = frame[j]
        BY <3>1
      <3>5. \A j \in 1..4 : j <= Len(frame') => j \in DOMAIN frame
        BY <1>2, <3>3
      <3>6. QED
        BY <1>2, <3>1, <3>3, <3>4, <3>5
    <2>2. CASE LoseEnd
      <3>1. PICK n \in 0..Len(frame) - 1 : frame' = SubSeq(frame, 1, n)
        BY <2>2 DEF LoseEnd
      <3>2. frame' \in Seq(Symbol) /\ Len(frame') = n /\ \A j \in 1..n : frame'[j] = frame[j]
        BY <1>2, <3>1
      <3>3. Len(frame) \in Nat /\ n \in Nat /\ n < Len(frame)
        BY <1>2
      <3>4. QED
        BY <1>2, <3>2, <3>3
    <2>3. QED
      BY <2>1, <2>2
  <1>5. FrameOK'
    BY <1>3, <1>4 DEF FrameInv, FrameOK, Utf8
  <1>6. CipherOK'
    <2>1. /\ cipher' = Cipher(key, nonce, EncodeHeader(sender'))
          /\ damaged' <=> frame' # Sealed(sender', nonce)
      BY <1>1, <1>3, <1>4
    <2>2. QED
      BY <2>1 DEF CipherOK, Cipher, Aad, EncodeHeader, U16, Sealed, Nonces
  <1>7. OpensAsSealed' /\ IntactOpens'
    BY <1>3 DEF OpensAsSealed, IntactOpens, Opened
  <1>8. QED
    BY <1>5, <1>6, <1>7 DEF FrameInv

\* An intact frame is taken apart as it was put together, if two bytes hold
\* the length of its sender's name.
LEMMA IntactOK ==
    ASSUME FrameInv, Open
    PROVE  IntactOpens'
  <1>1. UNCHANGED <<sender, cipher, decodes, frame, damaged, directory>>
    BY DEF Open
  <1> SUFFICES ASSUME ~damaged
               PROVE  "sender" \in DOMAIN result' <=>
                        /\ sender \in DOMAIN directory /\ directory[sender] = cipher.key
                        /\ Len(sender) < Base * Base /\ decodes
    BY <1>1 DEF IntactOpens, Opened
  <1> DEFINE h == ParseHeader(frame)
             end == 4 + frame[3] * Base + frame[4]
             body == SubSeq(frame, Len(h.header) + 1, Len(frame))
  <1>2. PICK key \in PeerKeys, nonce \in Nonces :
           cipher = Cipher(key, nonce, EncodeHeader(sender)) /\ frame = Sealed(sender, nonce)
    BY DEF FrameInv, CipherOK
  <1>3. sender \in Seq(Byte) /\ Utf8(sender) /\ Len(sender) \in Nat /\ NONCE_LEN \in Nat
    BY FramesAssumption DEF FrameInv, FrameOK
  <1>4. /\ Len(frame) >= 4 + Len(sender) /\ Len(EncodeHeader(sender)) = 4 + Len(sender)
        /\ frame[1] = VERSION /\ frame[2] = AUTH_PSK
        /\ frame[3] = (Len(sender) \div Base) % Base /\ frame[4] = Len(sender) % Base
        /\ SubSeq(frame, 1, 4 + Len(sender)) = EncodeHeader(sender)
        /\ SubSeq(frame, 5, 4 + Len(sender)) = sender
        /\ Len(SubSeq(frame, 4 + Len(sender) + 1, Len(frame))) = NONCE_LEN + 1
        /\ SubSeq(SubSeq(frame, 4 + Len(sender) + 1, Len(frame)), 1, NONCE_LEN) = nonce
        /\ SubSeq(SubSeq(frame, 4 + Len(sender) + 1, Len(frame)), NONCE_LEN + 1,
                  Len(SubSeq(frame, 4 + Len(sender) + 1, Len(frame)))) = <<Ct>>
    BY <1>2, <1>3, SealedParts, SMTT(40)
  <1>5. /\ frame[3] \in Byte /\ frame[4] \in Byte
        /\ frame[3] * Base + frame[4] \in Nat /\ frame[3] * Base + frame[4] < Base * Base
    BY <1>3, <1>4, LengthBytes, TwoBytesBound
  <1>6. frame \in Seq(Symbol) /\ Len(frame) \in Nat /\ Len(frame) >= 4
    BY <1>3, <1>4 DEF FrameInv, FrameOK
  <1>7. \A e : DOMAIN Fails(e) = {"error"} /\ "sender" \notin DOMAIN Fails(e)
    BY DEF Fails
  <1>8. result' = IF "error" \in DOMAIN h THEN h ELSE OpenBody(h, body)
    BY DEF Open
  <1>9. h = IF Len(frame) < end \/ ~Utf8(SubSeq(frame, 5, end)) THEN Fails("MalformedFrame")
            ELSE [header |-> SubSeq(frame, 1, end), sender |-> SubSeq(frame, 5, end)]
    BY <1>4, <1>6 DEF ParseHeader
  <1>10. end = 4 + (frame[3] * Base + frame[4])
    <2>1. frame[3] * Base \in Nat /\ frame[4] \in Nat
      BY <1>5, ProductIsNatural, BytesAreNumbers, FramesAssumption
    <2> HIDE DEF h
    <2>2. \A n, m \in Nat : 4 + n + m = 4 + (n + m)
      OBVIOUS
    <2>3. QED
      BY <2>1, <2>2
  <1> DEFINE size == frame[3] * Base + frame[4]
  <1>11. end = 4 + size /\ size \in Nat /\ size < Base * Base /\ end \in Nat
    BY <1>10, <1>5
  <1> HIDE DEF h, end, size
  <1>12. ASSUME Len(sender) < Base * Base
         PROVE  "sender" \in DOMAIN result' <=>
                    sender \in DOMAIN directory /\ directory[sender] = cipher.key /\ decodes
    <2>1. end = 4 + Len(sender)
      <3>1. size = Len(sender)
        BY <1>3, <1>4, <1>12, TwoBytes DEF size
      <3>2. QED
        BY <1>11, <3>1
    <2>2. h = [header |-> EncodeHeader(sender), sender |-> sender]
      <3>1. ~(Len(frame) < end)
        BY <1>3, <1>4, <1>6, <2>1
      <3>2. SubSeq(frame, 5, end) = sender /\ SubSeq(frame, 1, end) = EncodeHeader(sender)
        BY <1>4, <2>1
      <3>3. QED
        BY <1>3, <1>9, <3>1, <3>2
    <2>3. /\ "error" \notin DOMAIN h /\ h.sender = sender /\ h.header = EncodeHeader(sender)
          /\ body = SubSeq(frame, 4 + Len(sender) + 1, Len(frame))
      BY <1>4, <2>2
    <2>4. ~(Len(body) < NONCE_LEN)
      BY <1>3, <1>4, <2>3
    <2>5. Decrypts(directory[h.sender], SubSeq(body, 1, NONCE_LEN), h.header,
                   SubSeq(body, NONCE_LEN + 1, Len(body)))
            <=> cipher = Cipher(directory[sender], nonce, EncodeHeader(sender))
      BY <1>4, <2>3 DEF Decrypts
    <2>6. cipher = Cipher(directory[sender], nonce, EncodeHeader(sender)) <=> directory[sender] = cipher.key
      BY <1>2 DEF Cipher
    <2> HIDE DEF body
    <2>7. result' = IF sender \notin DOMAIN directory THEN Fails("UnknownPeer")
                    ELSE IF directory[sender] # cipher.key THEN Fails("OpenFailed")
                    ELSE IF ~decodes THEN Fails("Pipeline")
                    ELSE [sender |-> sender]
      BY <1>8, <2>3, <2>4, <2>5, <2>6 DEF OpenBody
    <2>8. "sender" \in DOMAIN [sender |-> sender]
      OBVIOUS
    <2>9. QED
      BY <1>7, <2>7, <2>8
  <1>13. ASSUME "sender" \in DOMAIN result'
         PROVE  Len(sender) < Base * Base
    <2>1. h # Fails("MalformedFrame")
      BY <1>7, <1>8, <1>13
    <2>2. /\ Len(frame) >= end /\ h = [header |-> SubSeq(frame, 1, end), sender |-> SubSeq(frame, 5, end)]
      BY <1>11, <1>6, <1>9, <2>1
    <2>3. "error" \notin DOMAIN h /\ h.header = SubSeq(frame, 1, end)
      BY <2>2
    <2> HIDE DEF body
    <2>4. cipher = Cipher(directory[h.sender], SubSeq(body, 1, NONCE_LEN), h.header)
      BY <1>8, <1>13, <2>3, OpenedShape
    <2>5. h.header = EncodeHeader(sender)
      BY <1>2, <2>4 DEF Cipher, Aad
    <2>6. Len(SubSeq(frame, 1, end)) = end
      BY <1>11, <1>6, <2>2
    <2>7. end = 4 + Len(sender)
      BY <1>4, <2>3, <2>5, <2>6
    <2>8. QED
      BY <1>3, <1>11, <2>7
  <1>14. QED
    BY <1>12, <1>13

\* What opens is what the cipher was made with, in the order it was sealed.
LEMMA OpenOK ==
    ASSUME FrameInv, Open
    PROVE  FrameInv'
  <1>1. UNCHANGED <<sender, cipher, decodes, frame, damaged, directory>>
    BY DEF Open
  <1>2. FrameOK' /\ CipherOK'
    BY <1>1 DEF FrameInv, FrameOK, Utf8, CipherOK, Cipher, Aad, EncodeHeader, U16, Sealed, Nonces
  <1>3. OpensAsSealed'
    <2> SUFFICES ASSUME "sender" \in DOMAIN result'
                 PROVE  result'.sender = sender /\ ~damaged
      BY <1>1 DEF OpensAsSealed, Opened
    <2> DEFINE h == ParseHeader(frame)
               body == SubSeq(frame, Len(h.header) + 1, Len(frame))
    <2>1. "error" \notin DOMAIN h /\ result' = OpenBody(h, body)
      <3>1. CASE "error" \in DOMAIN h
        <4>1. result' = h
          BY <3>1 DEF Open
        <4>2. "sender" \notin DOMAIN h
          BY <3>1 DEF ParseHeader, Fails
        <4>3. QED
          BY <4>1, <4>2
      <3>2. CASE "error" \notin DOMAIN h
        BY <3>2 DEF Open
      <3>3. QED
        BY <3>1, <3>2
    <2>2. frame \in Seq(Symbol) /\ sender \in Seq(Byte) /\ \A i \in 1..4 : i <= Len(frame) => frame[i] \in Byte
      BY DEF FrameInv, FrameOK
    <2>3. PICK end \in 4..Len(frame) :
             h.header = SubSeq(frame, 1, end) /\ h.sender = SubSeq(frame, 5, end)
      BY <2>1, <2>2, ParsedShape, Zenon
    <2>4. PICK key \in PeerKeys, nonce \in Nonces :
             /\ cipher = Cipher(key, nonce, EncodeHeader(sender))
             /\ damaged <=> frame # Sealed(sender, nonce)
      BY DEF FrameInv, CipherOK
    <2> HIDE DEF h
    <2>5. body = SubSeq(frame, end + 1, Len(frame)) /\ Len(body) \in Nat
      <3>1. Len(h.header) = end
        BY <2>2, <2>3
      <3>2. QED
        BY <2>2, <3>1
    <2> HIDE DEF body
    <2>6. /\ result'.sender = h.sender
          /\ ~(Len(body) < NONCE_LEN)
          /\ SubSeq(body, NONCE_LEN + 1, Len(body)) = <<Ct>>
          /\ cipher = Cipher(directory[h.sender], SubSeq(body, 1, NONCE_LEN), h.header)
      BY <2>1, OpenedShape, Zenon
    <2>7. SubSeq(body, 1, NONCE_LEN) = nonce /\ h.header = EncodeHeader(sender)
      <3>1. Cipher(directory[h.sender], SubSeq(body, 1, NONCE_LEN), h.header)
              = Cipher(key, nonce, EncodeHeader(sender))
        BY <2>4, <2>6, Zenon
      <3>2. QED
        BY <3>1 DEF Cipher, Aad
    <2>8. Len(body) >= NONCE_LEN
      BY <2>5, <2>6, FramesAssumption
    <2>9. frame = Sealed(sender, nonce) /\ SubSeq(frame, 5, end) = sender
      <3>1. SubSeq(frame, 1, end) = EncodeHeader(sender)
        BY <2>3, <2>7, Zenon
      <3>2. QED
        BY <2>2, <2>3, <2>5, <2>6, <2>7, <2>8, <3>1, PartsMakeFrame, ZenonT(60)
    <2>10. QED
      BY <2>3, <2>4, <2>6, <2>9
  <1>4. IntactOpens'
    BY IntactOK
  <1>5. QED
    BY <1>2, <1>3, <1>4 DEF FrameInv

LEMMA NextOK == FrameInv /\ [FrameNext]_frameVars => FrameInv'
  <1> SUFFICES ASSUME FrameInv, [FrameNext]_frameVars PROVE FrameInv'
    OBVIOUS
  <1>1. CASE Damage \/ LoseEnd
    BY <1>1, DamageOK
  <1>2. CASE Open
    BY <1>2, OpenOK
  <1>3. CASE UNCHANGED frameVars
    BY <1>3 DEF frameVars, FrameInv, FrameOK, Utf8, CipherOK, Cipher, Aad, EncodeHeader, U16, Sealed, Nonces,
                OpensAsSealed, IntactOpens, Opened
  <1>4. QED
    BY <1>1, <1>2, <1>3 DEF FrameNext

\* A frame opens as its sealing node's or not at all (open, federation.rs:215-238).
THEOREM Frames_Opens == FrameSpec => []OpensAsSealed
  <1>1. FrameInv => OpensAsSealed
    BY DEF FrameInv
  <1>2. QED
    BY <1>1, InitOK, NextOK, PTL DEF FrameSpec

\* What arrives as it was sealed opens just if the directory has its sender
\* under the key used, the sender's name fits the length field and the envelope
\* decodes (encode_header, parse_header and open, federation.rs:147-238).
THEOREM Frames_IntactOpen == FrameSpec => []IntactOpens
  <1>1. FrameInv => IntactOpens
    BY DEF FrameInv
  <1>2. QED
    BY <1>1, InitOK, NextOK, PTL DEF FrameSpec
=============================================================================
