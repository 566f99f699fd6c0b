-------------------------------- MODULE Gates --------------------------------
(***************************************************************************)
(* What a message passes before and around its handler: the decoder of     *)
(* envelopes, the validator of documents, the tables of registered         *)
(* listeners, and the middleware.  They share nothing.                     *)
(***************************************************************************)
EXTENDS Middleware

CONSTANTS
    None, Envelopes, Foreign, MaxNesting, Elements, Schemas, MaxEvents,
    Names, Tags, Lower, Fields, Registrations, NoSchema, MaxRegistered

VARIABLES
    envelope, document, pos, opened, passed, calls, meta, decoded,
    schema, depth, foundRoot, foundFields, valid, path, roots, children, events,
    handlers, routes, byName, schemas, listeners, log

D == INSTANCE Codec WITH result <- decoded
V == INSTANCE Validation WITH Tags <- Elements, result <- valid
L == INSTANCE Listeners

validVars == <<schema, depth, foundRoot, foundFields, valid, path, roots, children, events>>
tableVars == <<handlers, routes, byName, schemas, listeners, log>>
-----------------------------------------------------------------------------
(* The properties of modules Codec, Validation and Listeners.            *)

\* decode_envelope leaves no element open, but for the message and what is
\* named like one it has passed over.
AcceptedIsClosed == D!TypeOK /\ D!AcceptedIsClosed

\* decode_envelope accepts a whole document of encode_envelope's that has a
\* sender and a thread, and what it accepts of one is the whole envelope.
RoundTrips == D!AcceptedIsWhole /\ D!WholeIsAccepted

\* "any [`PayloadValue`] round-trips" (codec.rs:11).
AnyValueRoundTrips == D!AnyValueRoundTrips

\* validate_payload and validate_payload_value accept the same.
ValidatorsAgree == V!TypeOK /\ V!ValidatorsAgree

\* RoutingTable::resolve finds the first listener registered.
FirstRegistrationRoutes == L!FirstRegistrationRoutes

\* Handler, peers and metadata are those of a name's last registration, and
\* validate_value holds a payload to the last schema of its tag.
LastRegistrationGoverns == L!TypeOK /\ L!LastRegistrationGoverns /\ L!TaggedPayloadsConform

\* enforce_peers lets an agent reach its declared peers only.
AgentsReachPeersOnly == L!AgentsReachPeersOnly
=============================================================================
