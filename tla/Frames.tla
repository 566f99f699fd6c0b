-------------------------------- MODULE Frames --------------------------------
(***************************************************************************)
(* The frames of the federation wire (federation.rs): seal and open, byte  *)
(* by byte but for the ciphertext, which is one byte nobody else writes,   *)
(* and whose cipher is ideal: it opens with the key, nonce and associated  *)
(* data it was made with, and not otherwise.  The transport may damage a   *)
(* byte of a frame or lose its end.  The names leave room for module       *)
(* Federation's.                                                           *)
(***************************************************************************)
EXTENDS Naturals, Sequences, FiniteSets, SequencesExt

CONSTANTS
    Base,       \* 256 in the code: values of a byte
    MaxName,    \* bound: the longest namespace, in bytes
    MaxPeers,   \* bound: the peers in a directory
    NONCE_LEN,  \* 24 in the code
    PeerKeys,   \* pre-shared keys
    Ct,         \* the ciphertext
    None

ASSUME FramesAssumption ==
    /\ Base \in Nat /\ Base > 1 /\ MaxName \in Nat /\ MaxPeers \in Nat /\ NONCE_LEN \in Nat \ {0}
    /\ PeerKeys # {}

Byte == 0..Base - 1
VERSION == 1
AUTH_PSK == 0

\* Texts among the byte strings: the byte 1 begins a character that 0 ends.
Utf8(s) == \A i \in DOMAIN s : s[i] = 1 => i < Len(s) /\ s[i + 1] = 0

Namespaces == {s \in SeqOf(Byte, MaxName) : Utf8(s)}

VARIABLES
    sender,     \* the namespace of the node that seals
    cipher,     \* what the ciphertext was made with
    decodes,    \* decode_envelope accepts the envelope sealed in it (module Codec)
    frame,      \* the bytes under way
    damaged,    \* history: they are not as sealed
    directory,  \* the opening node's peers: namespace -> key
    result      \* of open

frameVars == <<sender, cipher, decodes, frame, damaged, directory, result>>
-----------------------------------------------------------------------------
(* Sealing.                                                                *)

\* s.len() as u16, big-endian.
U16(n) == <<(n \div Base) % Base, n % Base>>

\* Mutant of EncodeHeader: the low byte first.
EncodeHeaderLE(s) == <<VERSION, AUTH_PSK>> \o Reverse(U16(Len(s))) \o s

\* encode_header
EncodeHeader(s) == <<VERSION, AUTH_PSK>> \o U16(Len(s)) \o s

\* Mutant of Aad: what is bound is the method, not the sender.
AadPrefix(header) == SubSeq(header, 1, 4)

\* The associated data: all of the header.
Aad(header) == header

Cipher(key, nonce, header) == [key |-> key, nonce |-> nonce, aad |-> Aad(header)]

Nonces == [1..NONCE_LEN -> Byte]

\* A node seals an envelope with its key for this peer.
FrameInit ==
    /\ sender \in Namespaces
    /\ \E key \in PeerKeys, nonce \in Nonces :
         /\ cipher = Cipher(key, nonce, EncodeHeader(sender))
         /\ frame = EncodeHeader(sender) \o nonce \o <<Ct>>
    /\ decodes \in BOOLEAN /\ damaged = FALSE
    /\ \E peers \in {Range(s) : s \in SeqOf(Namespaces, MaxPeers)} : directory \in [peers -> PeerKeys]
    /\ result = None
-----------------------------------------------------------------------------
(* The transport.                                                          *)

Damage ==
    /\ result = None /\ ~damaged
    /\ \E i \in DOMAIN frame, b \in Byte : b # frame[i] /\ frame' = [frame EXCEPT ![i] = b]
    /\ damaged' = TRUE
    /\ UNCHANGED <<sender, cipher, decodes, directory, result>>

LoseEnd ==
    /\ result = None /\ ~damaged
    /\ \E n \in 0..Len(frame) - 1 : frame' = SubSeq(frame, 1, n)
    /\ damaged' = TRUE
    /\ UNCHANGED <<sender, cipher, decodes, directory, result>>
-----------------------------------------------------------------------------
(* Opening.                                                                *)

Fails(e) == [error |-> e]

\* parse_header: the header and the sender it names, or why there is none.
ParseHeader(f) ==
    IF Len(f) < 4 THEN Fails("MalformedFrame")
    ELSE IF f[1] # VERSION THEN Fails("UnsupportedVersion")
    ELSE IF f[2] # AUTH_PSK THEN Fails("UnsupportedAuth")
    ELSE LET end == 4 + f[3] * Base + f[4]
         IN  IF Len(f) < end \/ ~Utf8(SubSeq(f, 5, end)) THEN Fails("MalformedFrame")
             ELSE [header |-> SubSeq(f, 1, end), sender |-> SubSeq(f, 5, end)]

\* decrypt
Decrypts(key, nonce, header, ct) == ct = <<Ct>> /\ cipher = Cipher(key, nonce, header)

\* open, after parse_header: the peer's key, the nonce, the cipher, the envelope.
OpenBody(h, body) ==
    IF h.sender \notin DOMAIN directory THEN Fails("UnknownPeer")
    ELSE IF Len(body) < NONCE_LEN THEN Fails("MalformedFrame")
    ELSE IF ~Decrypts(directory[h.sender], SubSeq(body, 1, NONCE_LEN), h.header, SubSeq(body, NONCE_LEN + 1, Len(body)))
    THEN Fails("OpenFailed")
    ELSE IF ~decodes THEN Fails("Pipeline")
    ELSE [sender |-> h.sender]

Open ==
    /\ result = None
    /\ LET h == ParseHeader(frame)
       IN  result' = IF "error" \in DOMAIN h THEN h
                     ELSE OpenBody(h, SubSeq(frame, Len(h.header) + 1, Len(frame)))
    /\ UNCHANGED <<sender, cipher, decodes, frame, damaged, directory>>

FrameNext == Damage \/ LoseEnd \/ Open

FrameSpec == FrameInit /\ [][FrameNext]_frameVars
-----------------------------------------------------------------------------
(* Properties.                                                             *)

FrameTypeOK ==
    /\ sender \in Namespaces /\ decodes \in BOOLEAN
    /\ frame \in Seq(Byte \cup {Ct})
    /\ DOMAIN directory \subseteq Namespaces /\ \A n \in DOMAIN directory : directory[n] \in PeerKeys
    /\ result # None => DOMAIN result \in {{"error"}, {"sender"}}

Opened == result # None /\ "sender" \in DOMAIN result

\* A frame opens as its sealing node's or not at all, damaged or not, and also
\* where the node's name is too long for its length field, and the bytes it
\* declares name another peer, be it one with the same key (open, federation.rs:215-238:
\* "Fails closed on unknown sender, wrong key, or any tampering").
OpensAsSealed == Opened => result.sender = sender /\ ~damaged

\* What arrives as it was sealed opens just if the directory has the sealing
\* node under the key it used, the node's name fits the length field, and the
\* envelope in it decodes: a longer name, and an envelope with a blank thread or
\* sender, seal without an error and can never be opened
\* (encode_header and open, federation.rs:151, 236).
IntactOpens ==
    result # None /\ ~damaged =>
        (Opened <=> /\ sender \in DOMAIN directory /\ directory[sender] = cipher.key
                    /\ Len(sender) < Base * Base /\ decodes)
=============================================================================
