------------------------------- MODULE MCGates -------------------------------
(* What a message has to pass before and around its handler: the codec, the *)
(* validator of documents, the tables of registered listeners, and the      *)
(* middleware.  A behaviour is one of `part`, the others staying as they    *)
(* began.                                                                   *)
(*                                                                          *)
(* The codec's inputs are those of module MCCodec, the registrations those  *)
(* of MCListeners; documents are validated against every schema over two    *)
(* fields, for one root.                                                    *)
EXTENDS Gates

CONSTANTS bob, Bob, amy, task, Task, note, f, g, r, x

VARIABLE part

GivenCodec == INSTANCE MCCodec WITH result <- decoded, Envelopes <- {}, Foreign <- {}, MaxNesting <- 0
SomeEnvelopes == GivenCodec!SomeEnvelopes
SomeForeign == GivenCodec!SomeForeign

GivenListeners == INSTANCE MCListeners WITH Lower <- <<>>, Registrations <- {}
FoldCase == GivenListeners!FoldCase
SomeRegistrations == GivenListeners!SomeRegistrations

SomeSchemas ==
    {s \in [root : {r}, fields : SUBSET {f, g}, required : SUBSET {f, g}, strict : BOOLEAN] :
        s.required \subseteq s.fields}

ASSUME MCAssumption == D!CodecAssumption /\ V!ValidationAssumption /\ L!ListenersAssumption
-----------------------------------------------------------------------------
codecVars == <<envelope, document, pos, opened, passed, calls, meta, decoded>>
allVars == <<part, vars, codecVars, validVars, tableVars>>

NoDocument == document = <<>> /\ envelope = None /\ D!CodecInit
OneSchema == schema = (CHOOSE s \in Schemas : TRUE) /\ V!Init
NoMiddleware == chain = 0 /\ Init

MCInit ==
    /\ L!Init
    /\ \/ part = "codec" /\ D!CodecInit /\ OneSchema /\ NoMiddleware
       \/ part = "validation" /\ NoDocument /\ V!Init /\ NoMiddleware
       \/ part = "tables" /\ NoDocument /\ OneSchema /\ NoMiddleware
       \/ part = "middleware" /\ NoDocument /\ OneSchema /\ Init

MCNext ==
    \/ part = "codec" /\ D!CodecNext /\ UNCHANGED <<part, vars, validVars, tableVars>>
    \/ part = "validation" /\ V!Next /\ UNCHANGED <<part, vars, codecVars, tableVars>>
    \/ part = "tables" /\ L!Next /\ UNCHANGED <<part, vars, codecVars, validVars>>
    \/ part = "middleware" /\ Next /\ UNCHANGED <<part, codecVars, validVars, tableVars>>

\* A call of decode_envelope runs on until it returns.
MCSpec == MCInit /\ [][MCNext]_allVars /\ WF_codecVars(part = "codec" /\ D!CodecNext)
-----------------------------------------------------------------------------
(* The liveness property of module Codec.                                   *)

\* decode_envelope comes to an end whatever it is given, and by a panic only where
\* the document is not encode_envelope's.
DecoderEnds == part = "codec" => D!DecoderEnds
=============================================================================
