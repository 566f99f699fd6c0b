-------------------------------- MODULE Codec --------------------------------
(***************************************************************************)
(* The envelope codec (codec.rs): what encode_envelope writes, as the      *)
(* sequence of XML events of the document, for module Decoder to read.  A  *)
(* document may be cut short after any event, and need not come from       *)
(* encode_envelope (a federation peer may write its own).                  *)
(***************************************************************************)
EXTENDS Decoder

CONSTANTS
    Envelopes,  \* the envelopes to encode
    Foreign,    \* documents from elsewhere: sequences of events
    MaxNesting  \* bound: how deep the values in envelopes are nested

VARIABLE envelope  \* what was encoded; None for a foreign document
-----------------------------------------------------------------------------
(* Envelopes.                                                              *)

\* PayloadValue, over the values that may be inside it.
ValuesOver(Inner) ==
    {Nil} \cup (UNION {[kind : {k}, text : {Plain(b) : b \in Literals[k]}] : k \in DOMAIN Literals})
    \cup [kind : {"text"}, text : Text]
    \cup [kind : {"rec"}, fields : Seq([name : Text, value : Inner])]
    \cup [kind : {"seq"}, items : Seq(Inner)]

Values[n \in 0..MaxNesting] == ValuesOver(IF n = 0 THEN {} ELSE Values[n - 1])

\* Envelope: with addresses that are some, and a provenance that is none or marks.
EnvelopeType ==
    LET Address == {t \in Text : t.body # "]"}
    IN  [from : Address, to : Address \cup {None}, thread : Text, provenance : {None, Plain("1")},
         tag : Text, value : Values[MaxNesting]]
-----------------------------------------------------------------------------
(* Encoding.                                                               *)

\* text_el, scalar: the text is escaped.
Element(start, t, name) == <<start, Chars(Escape(t)), End(name)>>

FieldEvents(name, events) == <<Start("f", Escape(name))>> \o events \o <<End("f")>>

\* write_value, given what it writes of the values inside v.
PartsWritten(v, inner) ==
    IF v.kind = "rec"
    THEN [i \in DOMAIN v.fields |-> FieldEvents(v.fields[i].name, inner[v.fields[i].value])]
    ELSE [i \in DOMAIN v.items |-> inner[v.items[i]]]

Written(v, inner) ==
    LET start == Start("v", Plain(v.kind))
    IN  CASE v.kind \in {"rec", "seq"} -> <<start>> \o FlattenSeq(PartsWritten(v, inner)) \o <<End("v")>>
          [] v.kind = "nil" -> <<Empty("v", Plain("nil"))>>
          [] v.kind \in {"text"} \cup DOMAIN Literals -> Element(start, v.text, "v")

ValueEvents[n \in 0..MaxNesting] ==
    [v \in Values[n] |-> Written(v, IF n = 0 THEN <<>> ELSE ValueEvents[n - 1])]

MetaElement(name, t) == IF t = None THEN <<>> ELSE Element(Start(name, Plain("")), t, name)

\* Mutant of Encode: the provenance is thought to matter only where there is a destination.
EncodeLocal(env) ==
    <<Start("message", Plain("")), Start("meta", Plain(""))>>
    \o MetaElement("from", env.from)
    \o MetaElement("to", env.to)
    \o MetaElement("thread", env.thread)
    \o (IF env.to = None THEN <<>> ELSE MetaElement("provenance", env.provenance))
    \o <<End("meta"), Start("payload", Escape(env.tag))>>
    \o ValueEvents[MaxNesting][env.value]
    \o <<End("payload"), End("message")>>

\* encode_envelope
Encode(env) ==
    <<Start("message", Plain("")), Start("meta", Plain(""))>>
    \o MetaElement("from", env.from)
    \o MetaElement("to", env.to)
    \o MetaElement("thread", env.thread)
    \o MetaElement("provenance", env.provenance)
    \o <<End("meta"), Start("payload", Escape(env.tag))>>
    \o ValueEvents[MaxNesting][env.value]
    \o <<End("payload"), End("message")>>

\* What the reader yields of a document, with trim_text(true): texts without
\* the white space around them, and none that are nothing but white space.
OfEvent(e) ==
    IF e.ev # "text" THEN <<e>>
    ELSE IF e.text.body = "" THEN <<>> ELSE <<[e EXCEPT !.text = Trim(@)]>>

Yielded(events) == FlattenSeq([i \in DOMAIN events |-> OfEvent(events[i])])

CodecInit ==
    /\ envelope \in Envelopes \cup {None}
    /\ \E whole \in IF envelope = None THEN Foreign ELSE {Encode(envelope)} :
         \E cut \in 0..Len(Yielded(whole)) : document = SubSeq(Yielded(whole), 1, cut)
    /\ Ready

CodecNext == Next /\ UNCHANGED envelope

\* decode_envelope runs on until it returns.
CodecSpec == CodecInit /\ [][CodecNext]_<<vars, envelope>> /\ WF_<<vars, envelope>>(CodecNext)
-----------------------------------------------------------------------------
(* What an envelope is once it has been through the codec.                 *)

\* Field names and the tag, which are attributes, come back as they are written.
SettledOver(v, inner) ==
    CASE v.kind = "rec" -> Rec([i \in DOMAIN v.fields |->
                                  [name |-> Escape(v.fields[i].name), value |-> inner[v.fields[i].value]]])
      [] v.kind = "seq" -> Seqn([i \in DOMAIN v.items |-> inner[v.items[i]]])
      [] v.kind = "nil" -> Nil
      [] v.kind = "text" -> Scalar("text", IF v.text.body = "" THEN Plain("") ELSE Trim(v.text))
      [] v.kind \in DOMAIN Literals -> v

Settled[n \in 0..MaxNesting] ==
    [v \in Values[n] |-> SettledOver(v, IF n = 0 THEN <<>> ELSE Settled[n - 1])]

\* A text that is empty or blank is not there.
Present(t) == IF t = None THEN None ELSE IF t.body = "" THEN None ELSE Trim(t)

SettledEnvelope(env) ==
    [from |-> Present(env.from), to |-> Present(env.to), thread |-> Present(env.thread),
     provenance |-> Present(env.provenance), tag |-> Escape(env.tag), value |-> Settled[MaxNesting][env.value]]

\* None is neither a text, nor an envelope or the payload of one.
CodecAssumption ==
    /\ DecoderAssumption
    /\ MaxNesting \in Nat
    /\ None \notin Text
    /\ Envelopes \subseteq EnvelopeType
    /\ \A env \in Envelopes : LET e == SettledEnvelope(env) IN None \notin {e, [tag |-> e.tag, value |-> e.value]}

\* However much of an envelope's document arrives, what the decoder accepts is
\* the whole envelope, every field and item in its place, the sender and the
\* provenance with it; only white space around texts, blank addresses and the
\* escapes of names change (encode_envelope and decode_envelope, codec.rs:38-172).
AcceptedIsWhole == Accepted /\ envelope # None => result = SettledEnvelope(envelope)

\* An envelope with a sender and a thread is accepted when all of its document
\* is there (round_trip_minimal, codec.rs:478-500).
WholeIsAccepted ==
    result # None /\ envelope # None /\ document # <<>> /\ Last(document) = End("message") =>
        (Accepted <=> Present(envelope.from) # None /\ Present(envelope.thread) # None)

\* "any [`PayloadValue`] round-trips" (codec.rs:11): the value of an envelope
\* that has been through the codec is the value that it had.
AnyValueRoundTrips == Accepted /\ envelope # None => result.value = envelope.value

\* Whatever it is given, decode_envelope comes to an end: no loop that passes
\* over events it does not know passes over the end of the input.  The end may
\* be a panic (prov_from_hex and from_hex, codec.rs:390, 409), but not where
\* encode_envelope wrote the document.
DecoderEnds == <>(result # None /\ (envelope # None => ~Panicked))
=============================================================================
