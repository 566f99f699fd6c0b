------------------------------- MODULE Decoder -------------------------------
(***************************************************************************)
(* decode_envelope (codec.rs), as the machine that reads the XML events of *)
(* a document one by one, its nested calls on a stack.  The document may   *)
(* be any sequence of events: cut short anywhere, ill-formed, or by a      *)
(* federation peer that writes its own.                                    *)
(*                                                                         *)
(* A text is its body, whether there is white space around it, and how     *)
(* often its markup characters (&, <) have been escaped: 0 when it has     *)
(* none, 1 when they stand for themselves.  The body Astride stands for    *)
(* those as long as what is read by pieces, in which a character lies      *)
(* across the end of a piece.                                              *)
(***************************************************************************)
EXTENDS Naturals, Sequences, SequencesExt

CONSTANT None

\* Why decode_envelope ends without an envelope: all but "panic" are errors that
\* it returns; a panic goes on to end the task that called it.
Reasons == {"xml", "unexpected", "unescape", "parse", "eof", "unknown kind", "invalid number", "bad hex",
            "missing", "panic"}

\* To have ended with an error is to have ended.
DecoderAssumption == \A e \in Reasons : [error |-> e] # None

VARIABLES
    document,   \* the events there are to read
    pos,        \* the next of them
    opened,     \* the reader's: the names of the elements that are open
    passed,     \* only the model's: the names of the start tags passed over
    calls,      \* the decoder's calls, the innermost last
    meta,       \* from, to, thread, provenance and payload, as read so far
    result      \* of decode_envelope

vars == <<document, pos, opened, passed, calls, meta, result>>

Plain(body) == [body |-> body, pad |-> FALSE, markup |-> 0]
Escape(t) == [t EXCEPT !.markup = IF @ = 0 THEN 0 ELSE @ + 1]
Unescape(t) == [t EXCEPT !.markup = IF @ < 2 THEN @ ELSE @ - 1]
Trim(t) == [t EXCEPT !.pad = FALSE]

Joined(s, t) ==
    IF s.body = "" THEN t ELSE [t EXCEPT !.body = s.body \o @, !.markup = IF @ = 0 THEN s.markup ELSE @]

Start(name, attribute) == [ev |-> "start", name |-> name, text |-> attribute]
Empty(name, attribute) == [ev |-> "empty", name |-> name, text |-> attribute]
Chars(t) == [ev |-> "text", name |-> "", text |-> t]
End(name) == [ev |-> "end", name |-> name, text |-> Plain("")]
Other == [ev |-> "other", name |-> "", text |-> Plain("")]  \* a comment, CDATA, a declaration...
Eof == [ev |-> "eof", name |-> "", text |-> Plain("")]

\* Values: a record, a sequence, nil, or a scalar with the text that it is written
\* as (a number's digits, a blob's hex).
Rec(fields) == [kind |-> "rec", fields |-> fields]
Seqn(items) == [kind |-> "seq", items |-> items]
Scalar(kind, t) == [kind |-> kind, text |-> t]
Nil == [kind |-> "nil"]

\* How the scalars that are no texts are written, and what is read as one of
\* them: a number may have a sign that is not written.  What is not listed stands
\* for what does not parse.
Literals == [uint |-> {"7"}, sint |-> {"7", "-7"}, real |-> {"7", "-7", "0.5"},
             bool |-> {"true", "false"}, blob |-> {"", "07"}]
Astride == "0~0"

\* What a document is made of.
Text == [body : STRING, pad : BOOLEAN, markup : Nat]
Events == [ev : {"start", "empty", "text", "end", "other"}, name : STRING, text : Text]

\* decode_envelope is called.
Ready ==
    /\ pos = 1 /\ opened = <<>> /\ passed = {}
    /\ calls = <<[fn |-> "decode_envelope"]>>
    /\ meta = [message |-> FALSE, from |-> None, to |-> None, thread |-> None,
               provenance |-> None, payload |-> None]
    /\ result = None

Init == document \in Seq(Events) /\ Ready
-----------------------------------------------------------------------------
(* Decoding.                                                               *)

Event == IF pos \in DOMAIN document THEN document[pos] ELSE Eof
Top == Last(calls)
Is(ev, name) == Event.ev = ev /\ Event.name = name

Stop(reason) == result' = [error |-> reason] /\ UNCHANGED <<passed, calls, meta>>

\* The reader checks that end tags match: one that closes nothing that is open,
\* or not the last of it, is an error for whoever reads on.
Misnested == Event.ev = "end" /\ ~(opened # <<>> /\ Last(opened) = Event.name)

Malformed ==
    /\ result = None /\ Misnested
    /\ Stop("xml")
    /\ UNCHANGED <<document, pos, opened>>

\* One event is read by the innermost call, fn.
Reads(fn) ==
    /\ result = None /\ Top.fn = fn /\ ~Misnested
    /\ pos' = IF Event = Eof THEN pos ELSE pos + 1
    /\ opened' = CASE Event.ev = "start" -> Append(opened, Event.name)
                   [] Event.ev = "end" -> Front(opened)
                   [] OTHER -> opened
    /\ UNCHANGED document

\* It is passed over; what a start tag opens so means nothing here.
Skip ==
    /\ passed' = IF Event.ev = "start" THEN passed \cup {Event.name} ELSE passed
    /\ UNCHANGED <<calls, meta, result>>

Enter(cs) == calls' = calls \o cs /\ UNCHANGED <<passed, meta, result>>
Become(c) == calls' = Append(Front(calls), c) /\ UNCHANGED <<passed, meta, result>>

\* parse_value returns v to the call that wants it: the items of a sequence,
\* or the element that is then to be closed.
Deliver(cs, v) ==
    IF Last(cs).fn = "seq"
    THEN [cs EXCEPT ![Len(cs)].items = Append(@, v)]
    ELSE Append(Front(cs), [fn |-> "expect_end", name |-> Last(cs).name, label |-> Last(cs).label, value |-> v])

Return(v) == calls' = Deliver(Front(calls), v) /\ UNCHANGED <<passed, meta, result>>

\* <name label="..."> with one value in it: expect_value, then expect_end.
Labelled(name) == <<[fn |-> "labelled", name |-> name, label |-> Event.text], [fn |-> "expect_value"]>>

\* What decode_envelope makes of what it has read.
Complete ==
    IF meta.message /\ meta.from # None /\ meta.thread # None /\ meta.payload # None
    THEN [from |-> meta.from, to |-> meta.to, thread |-> meta.thread, provenance |-> meta.provenance,
          tag |-> meta.payload.tag, value |-> meta.payload.value]
    ELSE [error |-> "missing"]

\* decode_envelope's loop.
DecodeEnvelope ==
    /\ Reads("decode_envelope")
    /\ \/ /\ Is("start", "message")
          /\ meta' = [meta EXCEPT !.message = TRUE]
          /\ UNCHANGED <<passed, calls, result>>
       \/ Is("start", "meta") /\ Enter(<<[fn |-> "read_meta", field |-> None]>>)
       \/ Is("start", "payload") /\ Enter(Labelled("payload"))
       \/ Event.ev = "start" /\ Event.name \notin {"message", "meta", "payload"} /\ Stop("unexpected")
       \/ (Is("end", "message") \/ Event = Eof) /\ result' = Complete /\ UNCHANGED <<passed, calls, meta>>
       \/ Event.ev \in {"text", "empty", "other"} /\ Skip
       \/ Event.ev = "end" /\ Event.name # "message" /\ Skip

\* unescape, where a lone & stands.
Garbled(t) == t.markup = 1

\* What is wrong with the text of an element of <meta>: Address::parse refuses
\* what is no address, prov_from_hex what is no 32 digits, and it panics where
\* their middle is inside a character.
MetaFaults(field, t) ==
    IF field # None /\ Garbled(t) THEN {"unescape"}
    ELSE CASE field \in {"from", "to"} /\ t.body \in {"", "]"} -> {"parse"}
           [] field = "provenance" /\ t.body = Astride -> {"panic"}
           [] field = "provenance" /\ t.body \notin {"1", Astride} -> {"parse"}
           [] OTHER -> {}

\* read_meta: the text of the last element opened, if it is one of the four.
ReadMeta ==
    /\ Reads("read_meta")
    /\ \/ /\ Event.ev = "start"
          /\ calls' = Append(Front(calls), [Top EXCEPT !.field = Event.name])
          /\ passed' = passed \cup {Event.name} /\ UNCHANGED <<meta, result>>
       \/ /\ Event.ev = "text" /\ Top.field \in {"from", "to", "thread", "provenance"}
          /\ MetaFaults(Top.field, Event.text) = {}
          /\ meta' = [meta EXCEPT ![Top.field] = Trim(Unescape(Event.text))]
          /\ UNCHANGED <<passed, calls, result>>
       \/ /\ Event.ev = "text" /\ Top.field \notin {"from", "to", "thread", "provenance"}
          /\ MetaFaults(Top.field, Event.text) = {} /\ Skip
       \/ Event.ev = "text" /\ \E reason \in MetaFaults(Top.field, Event.text) : Stop(reason)
       \/ Is("end", "meta") /\ calls' = Front(calls) /\ UNCHANGED <<passed, meta, result>>
       \/ Event.ev = "end" /\ Event.name # "meta" /\ Become([Top EXCEPT !.field = None])
       \/ Event.ev \in {"empty", "other"} /\ Skip
       \/ Event = Eof /\ Stop("eof")

\* empty_value
EmptyValue(kind) ==
    CASE kind = "rec" -> Rec(<<>>)
      [] kind = "seq" -> Seqn(<<>>)
      [] kind \in {"text", "blob"} -> Scalar(kind, Plain(""))
      [] OTHER -> Nil

\* parse_value's choice by the kind of a <v>; only a start tag gets here.
ParseValue(cs, kind) ==
    CASE kind = "rec" -> calls' = Append(cs, [fn |-> "rec", fields |-> <<>>]) /\ UNCHANGED <<passed, meta, result>>
      [] kind = "seq" -> calls' = Append(cs, [fn |-> "seq", items |-> <<>>]) /\ UNCHANGED <<passed, meta, result>>
      [] kind \in {"text", "uint", "sint", "real", "bool", "blob", "nil"} ->
           /\ calls' = Append(cs, [fn |-> "read_scalar", kind |-> kind, text |-> Plain("")])
           /\ UNCHANGED <<passed, meta, result>>
      [] OTHER -> Stop("unknown kind")

\* expect_value: its caller is to be given the value, so parse_value takes its place.
ExpectValue ==
    /\ Reads("expect_value")
    /\ \/ Is("start", "v") /\ ParseValue(Front(calls), Event.text.body)
       \/ Is("empty", "v") /\ Return(EmptyValue(Event.text.body))
       \/ Event.ev = "text" /\ Skip
       \/ Event = Eof /\ Stop("eof")
       \/ Event.ev \in {"start", "end", "empty", "other"} /\ ~Is("start", "v") /\ ~Is("empty", "v") /\ Stop("unexpected")

\* parse_value, "rec": what is neither a field nor the end is passed over.
ParseRec ==
    /\ Reads("rec")
    /\ \/ Is("start", "f") /\ Enter(Labelled("f"))
       \/ Is("end", "v") /\ Return(Rec(Top.fields))
       \/ Event = Eof /\ Stop("eof")
       \/ Event # Eof /\ ~Is("start", "f") /\ ~Is("end", "v") /\ Skip

\* parse_value, "seq"
ParseSeq ==
    /\ Reads("seq")
    /\ \/ Is("start", "v") /\ ParseValue(calls, Event.text.body)
       \/ Is("empty", "v") /\ calls' = Deliver(calls, EmptyValue(Event.text.body)) /\ UNCHANGED <<passed, meta, result>>
       \/ Is("end", "v") /\ Return(Seqn(Top.items))
       \/ Event = Eof /\ Stop("eof")
       \/ Event # Eof /\ Event.name # "v" /\ Skip

\* What is wrong with the text of a scalar: parse() takes the text of a number
\* as it is; from_hex, which trims, takes a sign for a digit of a pair, and panics
\* where a pair ends inside a character.
ScalarFaults(kind, t) ==
    CASE /\ kind \in {"uint", "sint", "real"}
         /\ t \notin {Plain(b) : b \in Literals[kind] \cup {"+7"}} -> {"invalid number"}
      [] kind = "blob" /\ t.body = Astride -> {"panic"}
      [] kind = "blob" /\ t.body \notin Literals.blob \cup {"+7", Astride} -> {"bad hex"}
      [] OTHER -> {}

\* A text without faults as a value: a sign has no trace in it, what is not true
\* is false, and nil is nil whatever it is written as.
ScalarValue(kind, t) ==
    CASE kind = "text" -> Scalar(kind, t)
      [] kind \in {"uint", "sint", "real"} -> Scalar(kind, Plain(IF t.body = "+7" THEN "7" ELSE t.body))
      [] kind = "bool" -> Scalar(kind, Plain(IF t = Plain("true") THEN "true" ELSE "false"))
      [] kind = "blob" -> Scalar(kind, Plain(IF t.body = "+7" THEN "07" ELSE t.body))
      [] kind = "nil" -> Nil

\* Mutant of ReadScalar: the end of the input is passed over like a comment.
ReadScalarOn ==
    /\ Reads("read_scalar")
    /\ \/ Event.ev = "text" /\ Become([Top EXCEPT !.text = Joined(@, Unescape(Event.text))])
       \/ Is("end", "v") /\ Return(ScalarValue(Top.kind, Top.text))
       \/ Event.ev # "text" /\ ~Is("end", "v") /\ Skip

\* Mutant of ReadScalar: a scalar that is cut short is what there is of it.
ReadScalarCut ==
    /\ Reads("read_scalar")
    /\ \/ Event.ev = "text" /\ Become([Top EXCEPT !.text = Joined(@, Unescape(Event.text))])
       \/ Is("end", "v") /\ Return(ScalarValue(Top.kind, Top.text))
       \/ Event = Eof /\ calls' = SubSeq(calls, 1, 1) /\ UNCHANGED <<passed, result>>
          /\ meta' = [meta EXCEPT !.payload = [tag |-> Plain(""), value |-> ScalarValue(Top.kind, Top.text)]]
       \/ Event.ev \in {"start", "empty", "end", "other"} /\ ~Is("end", "v") /\ Skip

\* read_scalar, and what parse_value makes of the text.
ReadScalar ==
    /\ Reads("read_scalar")
    /\ \/ Event.ev = "text" /\ ~Garbled(Event.text) /\ Become([Top EXCEPT !.text = Joined(@, Unescape(Event.text))])
       \/ Event.ev = "text" /\ Garbled(Event.text) /\ Stop("unescape")
       \/ Is("end", "v") /\ ScalarFaults(Top.kind, Top.text) = {} /\ Return(ScalarValue(Top.kind, Top.text))
       \/ Is("end", "v") /\ \E reason \in ScalarFaults(Top.kind, Top.text) : Stop(reason)
       \/ Event = Eof /\ Stop("eof")
       \/ Event.ev \in {"start", "empty", "end", "other"} /\ ~Is("end", "v") /\ Skip

\* expect_end, and what is done with the element it closes: a payload, or the
\* field of the record whose call is next to last.
ExpectEnd ==
    /\ Reads("expect_end")
    /\ \/ /\ Is("end", Top.name) /\ Top.name = "payload"
          /\ meta' = [meta EXCEPT !.payload = [tag |-> Top.label, value |-> Top.value]]
          /\ calls' = Front(calls) /\ UNCHANGED <<passed, result>>
       \/ /\ Is("end", Top.name) /\ Top.name = "f"
          /\ calls' = [Front(calls) EXCEPT ![Len(calls) - 1].fields =
                         Append(@, [name |-> Top.label, value |-> Top.value])]
          /\ UNCHANGED <<passed, meta, result>>
       \/ Event.ev = "text" /\ Skip
       \/ Event = Eof /\ Stop("eof")
       \/ Event.ev \in {"start", "end", "empty", "other"} /\ ~Is("end", Top.name) /\ Stop("unexpected")

Next ==
    \/ Malformed
    \/ DecodeEnvelope
    \/ ReadMeta
    \/ ExpectValue
    \/ ParseRec
    \/ ParseSeq
    \/ ReadScalar
    \/ ExpectEnd

Spec == Init /\ [][Next]_vars
-----------------------------------------------------------------------------
(* Properties.                                                             *)

Functions == {"decode_envelope", "read_meta", "labelled", "expect_value", "rec", "seq", "read_scalar", "expect_end"}

TypeOK ==
    /\ pos \in 1..Len(document) + 1
    /\ calls # <<>> /\ calls[1].fn = "decode_envelope"
    /\ \A i \in DOMAIN calls : calls[i].fn \in Functions
    /\ \A i \in 2..Len(calls) : calls[i].fn = "expect_value" => calls[i - 1].fn = "labelled"

Accepted == result # None /\ "error" \notin DOMAIN result
Panicked == result = [error |-> "panic"]

\* Nothing that was cut short is accepted, whoever wrote it: but for the message
\* itself, an element is left open only under a name that has been met, and
\* passed over, where it means nothing (the EOF errors of read_meta,
\* parse_value, read_scalar and expect_end, codec.rs:174-359, and what the
\* loops of the first three let pass).
AcceptedIsClosed == Accepted => Range(opened) \subseteq passed \cup {"message"}
=============================================================================
