------------------------------- MODULE MCCodec -------------------------------
(* Envelopes with every kind of value, and documents by another writer.    *)
EXTENDS Codec

Padded == [body |-> "a", pad |-> TRUE, markup |-> 0]
Blank == [body |-> "", pad |-> TRUE, markup |-> 0]
Markup == [body |-> "b", pad |-> FALSE, markup |-> 1]
Seven == Scalar("uint", Plain("7"))
Minus == Scalar("sint", Plain("-7"))
Texts == {Plain(""), Plain("a"), Padded, Blank, Markup}

SomeScalars == {Scalar("text", t) : t \in Texts} \cup {Seven, Nil}
OtherScalars == UNION {{Scalar(k, Plain(b)) : b \in Literals[k]} : k \in DOMAIN Literals}
Field(name, v) == [name |-> name, value |-> v]

SomeValues ==
    SomeScalars \cup OtherScalars
    \cup {Rec(<<>>), Seqn(<<>>), Rec(<<Field(Plain("a"), Minus)>>)}
    \cup {Seqn(<<v, Minus>>) : v \in OtherScalars}
    \cup {Rec(<<Field(n, v)>>) : n \in {Plain("a"), Markup, Blank}, v \in SomeScalars}
    \cup {Rec(<<Field(Plain("a"), v), Field(Plain("b"), w)>>) : v \in SomeScalars, w \in {Seven, Seqn(<<Nil, Seven>>)}}
    \cup {Seqn(<<v, w>>) : v \in SomeScalars \cup {Rec(<<Field(Markup, Seven)>>)}, w \in {Nil, Rec(<<>>)}}

Envelope(from, to, thread, provenance, tag, v) ==
    [from |-> from, to |-> to, thread |-> thread, provenance |-> provenance, tag |-> tag, value |-> v]

SomeEnvelopes ==
    {Envelope(Plain("a"), to, Plain("t"), None, Plain("g"), v) : to \in {None, Plain("c")}, v \in SomeValues}
    \cup {Envelope(f, to, t, p, g, Seven) :
             f \in Texts, to \in {None, Plain("c"), Blank}, t \in Texts,
             p \in {None, Plain("1")}, g \in {Plain("g"), Markup, Plain("")}}

Open == <<Start("message", Plain("")), Start("meta", Plain(""))>>
          \o MetaElement("from", Plain("a")) \o MetaElement("thread", Plain("t"))
Within(events) ==
    Open \o <<End("meta"), Start("payload", Plain("g"))>> \o events \o <<End("payload"), End("message")>>
V(kind) == Start("v", Plain(kind))
InField(events) == Within(<<V("rec"), Start("f", Plain("n"))>> \o events \o <<End("f"), End("v")>>)
X(events) == <<Start("x", Plain(""))>> \o events \o <<End("x")>>
Word == <<Chars(Plain("w"))>>

SomeForeign ==
    { <<>>, Word, X(<<>>),
      <<Start("message", Plain(""))>> \o Word \o <<Empty("x", Plain("")), Start("meta", Plain("")),
        End("meta"), End("message")>>,
      Open \o X(Word) \o Word \o <<Empty("to", Plain("")), End("meta"), End("message")>>,
      Open \o MetaElement("to", Plain("]")), Open \o MetaElement("provenance", Plain("w")),
      Within(<<>>), Within(Word \o <<Empty("v", Plain("rec"))>> \o Word),
      Within(<<Empty("v", Plain("seq")), Empty("v", Plain("seq"))>>), Within(X(<<>>)),
      Within(<<V("nil")>> \o Word \o <<End("v")>>), Within(<<V("odd"), End("v")>>), Within(<<V("seq"), V("odd")>>),
      Open \o MetaElement("provenance", Plain(Astride)),
      Open \o <<Start("to", Plain("")), Chars(Markup)>>,
      Open \o <<Start("to", Plain("")), Chars([Blank EXCEPT !.markup = 0])>>,
      <<Other, Start("message", Plain("")), Other, Start("meta", Plain("")), Other, End("meta"), Other>>,
      Within(<<Other, Empty("v", Plain("blob"))>>), Within(<<Empty("v", Plain("blob")), Other>>),
      Within(<<V("seq"), Other, Empty("v", Plain("blob")), Empty("v", Plain("uint")), End("v")>>),
      Within(<<V("rec"), Other, End("v")>>),
      Within(<<V("uint"), End("v")>>), Within(<<V("text")>> \o Word \o X(Word) \o <<End("v")>>),
      Within(<<V("seq")>> \o Word \o X(<<>>) \o <<Empty("v", Plain("text")), End("v")>>),
      Within(<<V("rec")>> \o Word \o X(<<V("seq"), End("v")>>) \o <<End("v")>>),
      InField(<<>>), InField(Word \o <<Empty("v", Plain("odd"))>> \o Word),
      Open \o <<Start("meta", Plain("")), End("meta"), End("meta"), Start("payload", Plain("g")),
                Empty("v", Plain("nil")), End("payload"), End("message")>>,
      Within(<<V("rec"), Start("payload", Plain("")), V("nil"), End("v"), End("payload"), End("v")>>),
      <<End("message")>>, <<Start("message", Plain("")), End("meta")>>,
      InField(<<V("seq"), V("seq"), Empty("v", Plain("nil")), End("v"), End("v")>>) }
    \cup {Within(<<V(k), Chars(t), End("v")>>) :
            k \in {"text"} \cup DOMAIN Literals,
            t \in {Markup, Plain("w"), Plain("+7"), Plain("-7"), Plain(Astride)}
                    \cup {[Plain(b) EXCEPT !.pad = TRUE] : b \in {"7", "true", "07"}}}
    \cup {Within(<<V(k), Chars(Plain("0")), Other, Chars(Plain("7")), End("v")>>) : k \in {"text", "blob"}}
=============================================================================
