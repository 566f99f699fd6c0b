------------------------------ MODULE Provenance ------------------------------
(***************************************************************************)
(* The provenance label set (wire.rs): two machine words, here of Width    *)
(* bits, their bits set and united as messages pass on what they carry,    *)
(* tested against an egress mask, and written in hex between pipelines     *)
(* (codec.rs).                                                             *)
(***************************************************************************)
EXTENDS Naturals, Sequences, Bitwise

CONSTANTS
    Messages,   \* the messages that carry a set
    Width,      \* 64 in the code: bits of a word, a multiple of Digit
    Digit,      \* 4 in the code: bits of a hex digit
    Bits        \* the bits a host may name

ProvenanceAssumption ==
    /\ Width \in Nat \ {0} /\ Digit \in Nat \ {0} /\ Width % Digit = 0
    /\ Bits \subseteq Nat

VARIABLES
    prov,       \* message -> its label set: the words lo and hi
    marks       \* history: message -> the bits set in it or in what it was united with

vars == <<prov, marks>>

Word == 0..(2^Width - 1)
EMPTY == [lo |-> 0, hi |-> 0]

TypeOK ==
    /\ prov \in [Messages -> [lo : Word, hi : Word]]
    /\ marks \in [Messages -> SUBSET Bits]

Init ==
    /\ prov = [m \in Messages |-> EMPTY]
    /\ marks = [m \in Messages |-> {}]
-----------------------------------------------------------------------------
(* Operations.                                                             *)

\* Mutant of WithBit: the first bit of the second word is looked for in the
\* first (a shift by the width is one by 0).
WithBitOffByOne(p, bit) ==
    IF bit <= Width THEN [p EXCEPT !.lo = @ | 2^(bit % Width)]
    ELSE IF bit < 2 * Width THEN [p EXCEPT !.hi = @ | 2^(bit - Width)]
    ELSE p

\* set_bit, with_bit and from_bit: a bit that has no place changes nothing.
WithBit(p, bit) ==
    IF bit < Width THEN [p EXCEPT !.lo = @ | 2^bit]
    ELSE IF bit < 2 * Width THEN [p EXCEPT !.hi = @ | 2^(bit - Width)]
    ELSE p

\* union, union_with
Union(p, q) == [lo |-> p.lo | q.lo, hi |-> p.hi | q.hi]

IsEmpty(p) == p.lo = 0 /\ p.hi = 0

ContainsBit(p, bit) ==
    IF bit < Width THEN p.lo & 2^bit # 0
    ELSE bit < 2 * Width /\ p.hi & 2^(bit - Width) # 0

Intersects(p, mask) == p.lo & mask.lo # 0 \/ p.hi & mask.hi # 0

HexBase == 2^Digit
Digits == Width \div Digit

\* Hex digits of a word, the most significant first, all of them.
WordToHex(w) == [d \in 1..Digits |-> (w \div HexBase^(Digits - d)) % HexBase]

\* prov_to_hex: the high word first.
ProvToHex(p) == WordToHex(p.hi) \o WordToHex(p.lo)

\* from_str_radix
HexToWord(h) ==
    LET value[d \in 0..Len(h)] == IF d = 0 THEN 0 ELSE HexBase * value[d - 1] + h[d] IN value[Len(h)]

\* prov_from_hex, of a text of the right length
ProvFromHex(h) ==
    [hi |-> HexToWord(SubSeq(h, 1, Digits)), lo |-> HexToWord(SubSeq(h, Digits + 1, 2 * Digits))]

SetBit(m, bit) ==
    /\ prov' = [prov EXCEPT ![m] = WithBit(@, bit)]
    /\ marks' = [marks EXCEPT ![m] = @ \cup {bit}]

\* A message takes over what another one carries.
Inherit(m, n) ==
    /\ prov' = [prov EXCEPT ![m] = Union(@, prov[n])]
    /\ marks' = [marks EXCEPT ![m] = @ \cup marks[n]]

\* A message is encoded and decoded; an empty set is not written.
Hop(m) ==
    /\ prov' = [prov EXCEPT ![m] = IF IsEmpty(@) THEN EMPTY ELSE ProvFromHex(ProvToHex(@))]
    /\ UNCHANGED marks

Next ==
    \E m \in Messages :
        \/ \E bit \in Bits : SetBit(m, bit)
        \/ \E n \in Messages : Inherit(m, n)
        \/ Hop(m)

Spec == Init /\ [][Next]_vars
-----------------------------------------------------------------------------
(* Properties.                                                             *)

\* The bits that have a place.
Kept(m) == {b \in marks[m] : b < 2 * Width}

\* A message is marked with exactly the bits set in it and in what it was
\* united with, the last bit of a word and the first of the next told apart,
\* and a bit that has no place marks nothing (set_bit and contains_bit, wire.rs:275-317).
MarksAreKept ==
    \A m \in Messages :
        /\ \A b \in Bits : ContainsBit(prov[m], b) <=> b \in Kept(m)
        /\ IsEmpty(prov[m]) <=> Kept(m) = {}

\* The egress test finds a message and a mask that share a mark, and no others
\* (intersects, wire.rs:319-322: "the egress mask-test primitive").
MaskTestsSharing ==
    \A m, n \in Messages : Intersects(prov[m], prov[n]) <=> Kept(m) \cap Kept(n) # {}
=============================================================================
