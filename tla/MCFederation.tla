----------------------------- MODULE MCFederation -----------------------------
(* Federation, from its bytes to its nodes: the frames, addresses and label  *)
(* sets that go between nodes, and the nodes themselves.  A behaviour is one *)
(* of `part`, the others staying as they began.                              *)
(*                                                                           *)
(* Three nodes in a row: A and C are peers of B, and not of each other.  One *)
(* request goes to the neighbour, one further, through B.                    *)
EXTENDS Federation, Frames, Wire

CONSTANTS A, B, C, alice, bob, Messages, Width, Digit, Bits

VARIABLES part, prov, marks

Prov == INSTANCE Provenance

ASSUME MCAssumption == Addr!AddressesAssumption /\ Prov!ProvenanceAssumption

Plain(name) == [name |-> name, keyed |-> FALSE]
Instance(name) == [name |-> name, keyed |-> TRUE]

InARow == [n \in Nodes |-> IF n = B THEN {A, C} ELSE {B}]
EverywhereBob == [n \in Nodes |-> {bob}]

\* Each pair of neighbours shares a key.
PairKeys == [n \in Nodes |-> [m \in Nodes |-> {n, m}]]
AllKeys == {{n, m} : n, m \in Nodes}

\* A node marks what comes from a peer with the peer's name.
MarkByPeer == [n \in Nodes |-> [m \in Nodes |-> {m}]]

\* Every peer may address whatever it likes.
AllowAll == [n \in Nodes |-> Nodes \X (Nodes \cup Names)]

SomeRequests ==
    {[at |-> A, from |-> Flat(alice), to |-> <<Plain(B), Instance(bob)>>],
     [at |-> A, from |-> Flat(alice), to |-> <<Plain(B), Plain(C), Plain(bob)>>]}

SomeTargets == {<<Plain(C), Plain(bob)>>}
-----------------------------------------------------------------------------
markVars == <<prov, marks>>
allVars == <<part, vars, frameVars, addressVars, markVars>>

NoText == text = <<>> /\ Addr!Init

SomeFrame ==
    /\ sender = <<>> /\ directory = <<>> /\ decodes = TRUE /\ FrameInit
    /\ cipher = Cipher(CHOOSE k \in PeerKeys : TRUE, CHOOSE n \in Nonces : TRUE, EncodeHeader(sender))

MCInit ==
    /\ Init /\ Prov!Init
    /\ \/ part \in {"nodes", "marks"} /\ NoText /\ SomeFrame
       \/ part = "address" /\ Addr!Init /\ SomeFrame
       \/ part = "frame" /\ NoText /\ FrameInit

MCNext ==
    \/ part = "nodes" /\ Next /\ UNCHANGED <<part, frameVars, addressVars, markVars>>
    \/ part = "frame" /\ FrameNext /\ UNCHANGED <<part, vars, addressVars, markVars>>
    \/ part = "address" /\ Addr!Next /\ UNCHANGED <<part, vars, frameVars, markVars>>
    \/ part = "marks" /\ Prov!Next /\ UNCHANGED <<part, vars, frameVars, addressVars>>

MCSpec == MCInit /\ [][MCNext]_allVars
-----------------------------------------------------------------------------
(* The properties of module Provenance.                                      *)

\* set_bit and contains_bit keep exactly the marks that have a place, through
\* unions and hex, and intersects finds shared marks and no others.
MarksAreKept == part = "marks" => Prov!TypeOK /\ Prov!MarksAreKept /\ Prov!MaskTestsSharing
=============================================================================
