------------------------------ MODULE Addresses ------------------------------
(***************************************************************************)
(* Hierarchical addresses (wire.rs): Address::parse as the loop over the   *)
(* characters of a text, the accessors by which routing, the switchboard   *)
(* and federation read an address, and its Display.  A text is a sequence  *)
(* of characters, a name or a key a part of it.                            *)
(***************************************************************************)
EXTENDS Integers, Sequences, SequencesExt

CONSTANTS
    Letters,    \* characters that mean nothing to the parser
    MaxLen,     \* bound: the longest text
    None

Chars == Letters \cup {".", "[", "]", "+"}

\* A segment's key is an Option, and so is what the parser has returned.
Segments == [name : Seq(Chars), key : Seq(Chars) \cup {None}]
Errors == {"Empty", "EmptySegment", "EmptyName", "Unbalanced"}
Results == [address : Seq(Segments)] \cup [error : Errors]

AddressesAssumption ==
    /\ Letters # {} /\ MaxLen \in Nat
    /\ None \notin Seq(Chars) /\ None \notin Results

VARIABLES
    text,       \* the text to parse
    i,          \* the next character
    depth,      \* open brackets
    current,    \* the segment so far
    segments,   \* those before it
    result      \* of Address::parse

vars == <<text, i, depth, current, segments, result>>

Segment(name, key) == [name |-> name, key |-> key]
Error(e) == [error |-> e]
Ok(a) == "error" \notin DOMAIN a

Init ==
    /\ text \in SeqOf(Chars, MaxLen)
    /\ i = 1 /\ depth = 0 /\ current = <<>> /\ segments = <<>>
    /\ result = None
-----------------------------------------------------------------------------
(* Parsing.                                                                *)

\* parse_segment: a name, and what is between the first [ and the last
\* character, which is to be a ].
ParseSegment(raw) ==
    LET open == SelectInSeq(raw, LAMBDA c : c = "[")
    IN  IF raw = <<>> THEN Error("EmptySegment")
        ELSE IF open = 0 THEN Segment(raw, None)
        ELSE IF open = 1 THEN Error("EmptyName")
        ELSE IF Last(raw) # "]" THEN Error("Unbalanced")
        ELSE Segment(SubSeq(raw, 1, open - 1), SubSeq(raw, open + 1, Len(raw) - 1))

Reading == result = None /\ i <= Len(text)
Next1 == i' = i + 1 /\ UNCHANGED text

Push == current' = Append(current, text[i])

Open ==
    /\ Reading /\ text[i] = "["
    /\ depth' = depth + 1
    /\ Push /\ Next1 /\ UNCHANGED <<segments, result>>

Close ==
    /\ Reading /\ text[i] = "]"
    /\ depth' = depth - 1
    /\ IF depth' < 0 THEN result' = Error("Unbalanced") /\ UNCHANGED current
                     ELSE Push /\ UNCHANGED result
    /\ Next1 /\ UNCHANGED segments

\* A dot ends a segment wherever it is not in brackets.
Dot ==
    /\ Reading /\ text[i] = "." /\ depth = 0
    /\ LET s == ParseSegment(current)
       IN  IF Ok(s) THEN segments' = Append(segments, s) /\ current' = <<>> /\ UNCHANGED result
                    ELSE result' = s /\ UNCHANGED <<segments, current>>
    /\ Next1 /\ UNCHANGED depth

\* Any other character, and a dot inside of brackets.
Other ==
    /\ Reading /\ text[i] \notin {"[", "]"} /\ (text[i] = "." => depth # 0)
    /\ Push /\ Next1 /\ UNCHANGED <<depth, segments, result>>

\* Mutant of Finish: what is left after the last dot may be nothing.
FinishLoose ==
    /\ result = None /\ i > Len(text)
    /\ result' = IF text = <<>> THEN Error("Empty")
                 ELSE IF depth # 0 THEN Error("Unbalanced")
                 ELSE IF current = <<>> THEN [address |-> segments]
                 ELSE IF Ok(ParseSegment(current)) THEN [address |-> Append(segments, ParseSegment(current))]
                 ELSE ParseSegment(current)
    /\ UNCHANGED <<text, i, depth, current, segments>>

\* After the loop, and the test for an empty text before it.
Finish ==
    /\ result = None /\ i > Len(text)
    /\ result' = IF text = <<>> THEN Error("Empty")
                 ELSE IF depth # 0 THEN Error("Unbalanced")
                 ELSE IF Ok(ParseSegment(current)) THEN [address |-> Append(segments, ParseSegment(current))]
                 ELSE ParseSegment(current)
    /\ UNCHANGED <<text, i, depth, current, segments>>

Next == Open \/ Close \/ Dot \/ Other \/ Finish

Spec == Init /\ [][Next]_vars
-----------------------------------------------------------------------------
(* The accessors, of an address: a sequence of segments.                   *)

Flat(name) == <<Segment(name, None)>>

\* organism_index: the first segment with a key, else the first segment.
OrganismIndex(a) ==
    LET keyed == SelectInSeq(a, LAMBDA s : s.key # None) IN IF keyed = 0 THEN 1 ELSE keyed

Organism(a) == a[OrganismIndex(a)].name
InstanceKey(a) == a[OrganismIndex(a)].key
Namespace(a) == IF OrganismIndex(a) > 1 THEN a[1].name ELSE None
Node(a) == a[1].name
Target(a) == Last(a).name
Buffer(a) == IF OrganismIndex(a) < Len(a) THEN a[OrganismIndex(a) + 1] ELSE None

\* Mutant of InstanceAddress: the namespace is dropped with the buffer.
OrganismOnly(a) == <<a[OrganismIndex(a)]>>

\* instance_address
InstanceAddress(a) == SubSeq(a, 1, OrganismIndex(a))

\* Segment::cache_keys: the key split on +, without empty pieces.
Split(pieces, c) ==
    IF c = "+" THEN Append(pieces, <<>>) ELSE Append(Front(pieces), Append(Last(pieces), c))

Without(s, e) == FlattenSeq([n \in DOMAIN s |-> IF s[n] = e THEN <<>> ELSE <<s[n]>>])

CacheKeys(a) ==
    IF InstanceKey(a) = None THEN <<>> ELSE Without(FoldLeft(Split, << <<>> >>, InstanceKey(a)), <<>>)

\* Display, of a segment and of an address.
Show(s) == IF s.key = None THEN s.name ELSE s.name \o <<"[">> \o s.key \o <<"]">>

Display(a) == FlattenSeq([n \in DOMAIN a |-> (IF n > 1 THEN <<".">> ELSE <<>>) \o Show(a[n])])
-----------------------------------------------------------------------------
(* Properties.                                                             *)

TypeOK ==
    /\ text \in Seq(Chars) /\ i \in 1..(Len(text) + 1)
    /\ depth \in -1..Len(text) /\ (depth < 0 => result = Error("Unbalanced"))
    /\ Len(current) < i /\ Len(segments) < i
    /\ \A n \in DOMAIN segments : segments[n].name # <<>>

Parsed == result # None /\ Ok(result)

Found == result.address

\* Brackets open after the first n characters.
Depth(n) == Cardinality({k \in 1..n : text[k] = "["}) - Cardinality({k \in 1..n : text[k] = "]"})

\* The dots that separate segments, with the ends of the text.
Cuts == {0, Len(text) + 1} \cup {k \in 1..Len(text) : text[k] = "." /\ Depth(k) = 0}

\* A segment is text[m + 1] ... text[n - 1].
SegmentOK(m, n) ==
    /\ n > m + 1
    /\ text[m + 1] # "["
    /\ (\E k \in m + 1..n - 1 : text[k] = "[") => text[n - 1] = "]"

\* The texts that are addresses: brackets that match, and between the dots
\* outside of them a name that no bracket starts, alone or with a key at its end.
Grammatical ==
    /\ text # <<>> /\ Depth(Len(text)) = 0
    /\ \A k \in 1..Len(text) : Depth(k) >= 0
    /\ \A m, n \in Cuts : m < n /\ (\A k \in Cuts : ~(m < k /\ k < n)) => SegmentOK(m, n)

\* The parser takes what is an address and nothing else (Address::parse and
\* parse_segment, wire.rs:83-115 and 192-215).
ParsesTheGrammar == result # None => (Ok(result) <=> Grammatical)

\* An address that was read is written as it was: what routing, the chains and
\* the codec exchange as text names one and the same address (Display, wire.rs:217-230).
DisplayInverts == Parsed => Display(Found) = text

\* A name sent as a flat address is one on the other side of the codec just if
\* it has no dot and no bracket (Address::flat, and From<&str>, wire.rs:71-78 and 234-243).
FlatSurvives ==
    result # None /\ text # <<>> =>
        ((Ok(result) /\ Found = Flat(text)) <=> \A k \in DOMAIN text : text[k] \notin {".", "[", "]"})

\* Whatever its buffer, an address leads the switchboard to the same instance:
\* the instance address has the namespace, organism and keys of the whole, no
\* buffer, and is a beginning of its text (instance_address, wire.rs:184-189).
InstanceIsKept ==
    Parsed =>
        LET inst == InstanceAddress(Found)
        IN  /\ Organism(inst) = Organism(Found) /\ InstanceKey(inst) = InstanceKey(Found)
            /\ Namespace(inst) = Namespace(Found) /\ CacheKeys(inst) = CacheKeys(Found)
            /\ Node(inst) = Node(Found) /\ Target(inst) = Organism(Found)
            /\ Buffer(inst) = None
            /\ IsPrefix(Display(inst), text)

\* The keys of a composed cache are the key's text in order, the pluses and
\* nothing else taken out (cache_keys, wire.rs:51-58).
CacheKeysCompose ==
    Parsed /\ InstanceKey(Found) # None =>
        /\ FlattenSeq(CacheKeys(Found)) = Without(InstanceKey(Found), "+")
        /\ \A n \in DOMAIN CacheKeys(Found) : CacheKeys(Found)[n] # <<>>
-----------------------------------------------------------------------------
(* The Python mirror's Address.parse, over the same characters.            *)

MirrorStart == [segments |-> <<>>, name |-> <<>>, key |-> None, inside |-> FALSE, failed |-> FALSE]

\* Mutant of MirrorChar: a dot ends a segment inside of a key, too.
MirrorCharFlat(st, c) ==
    IF st.failed THEN st ELSE
    CASE c = "[" /\ st.inside -> [st EXCEPT !.failed = TRUE]
      [] c = "[" /\ ~st.inside -> [st EXCEPT !.inside = TRUE, !.key = <<>>]
      [] c = "]" -> [st EXCEPT !.failed = ~st.inside, !.inside = FALSE]
      [] c = "." ->
           [st EXCEPT !.failed = st.name = <<>>, !.segments = Append(@, Segment(st.name, st.key)),
                      !.name = <<>>, !.key = None]
      [] OTHER -> IF st.inside THEN [st EXCEPT !.key = Append(@, c)] ELSE [st EXCEPT !.name = Append(@, c)]

\* One turn of its loop.
MirrorChar(st, c) ==
    IF st.failed THEN st ELSE
    CASE c = "[" /\ st.inside -> [st EXCEPT !.failed = TRUE]
      [] c = "[" /\ ~st.inside -> [st EXCEPT !.inside = TRUE, !.key = <<>>]
      [] c = "]" -> [st EXCEPT !.failed = ~st.inside, !.inside = FALSE]
      [] c = "." /\ ~st.inside ->
           [st EXCEPT !.failed = st.name = <<>>, !.segments = Append(@, Segment(st.name, st.key)),
                      !.name = <<>>, !.key = None]
      [] OTHER -> IF st.inside THEN [st EXCEPT !.key = Append(@, c)] ELSE [st EXCEPT !.name = Append(@, c)]

MirrorParse(t) ==
    LET st == FoldLeft(MirrorChar, MirrorStart, t)
        all == IF st.name = <<>> THEN st.segments ELSE Append(st.segments, Segment(st.name, st.key))
    IN  IF st.failed \/ st.inside \/ all = <<>> THEN Error("ValueError") ELSE [address |-> all]

\* Every address a node writes, whose keys have no brackets of their own, is
\* read as the same by the other side (Address.parse, which "mirrors
\* wire::Address" and is kept "in sync", rust_pipeline_federation.py:10-11, 47).
MirrorReadsAddresses ==
    Parsed /\ (\A n \in DOMAIN Found : Found[n].key # None => "[" \notin Range(Found[n].key)) =>
        Ok(MirrorParse(text)) /\ MirrorParse(text).address = Found
=============================================================================
