------------------------------- MODULE Codec -------------------------------
(***************************************************************************)
(* The byte formats of the handshake: the init and response frames and the *)
(* responder's identity payload (handshake.go), the public identity        *)
(* (identity.go, kem.go), and the inputs of the transcript hash and of the *)
(* identity digest.  Go reads the frames through a sliceReader that        *)
(* consumes its buffer; the TypeScript and Python ports index into the     *)
(* frame instead (js/handshake.ts, py/handshake.py).                       *)
(*                                                                         *)
(* Module Handshake treats frames, transcripts and digests as records of   *)
(* their parts.  The properties here are what that rests on.               *)
(***************************************************************************)
EXTENDS Integers, Sequences

CONSTANTS
    Base,            \* values of a byte, 256 in the code
    CiphertextSize,  \* XWingCiphertextSize, 1120 in the code
    KeySizes,        \* sizes of the parts of a public identity
    DSAKeys,         \* what mldsa.PublicKeyFromBytes accepts, or a test's stub
    MLKEMKeys,       \* what mlkem.PublicKeyFromBytes accepts
    Labels,          \* signature contexts
    MaxLen           \* bound: bytes of a frame

Byte == 0..(Base - 1)

ASSUME CodecAssumption ==
    /\ Base \in Nat \ {0, 1}
    /\ CiphertextSize \in Nat
    /\ KeySizes \in [{"ed", "dsa", "mlkem", "x25519"} -> Nat]
    /\ \A k \in DSAKeys : k \in Seq(Byte) /\ Len(k) = KeySizes.dsa
    /\ \A k \in MLKEMKeys : k \in Seq(Byte) /\ Len(k) = KeySizes.mlkem
    /\ \A l \in Labels : l \in Seq(Byte) /\ Len(l) < Base
    /\ MaxLen \in Nat

\* What is hashed is shorter than a 32-bit length can say.
ASSUME LengthsFit == MaxLen < Base * Base * Base * Base

VARIABLE data    \* a frame, as received so far

Init == data = <<>>

Receive ==
    /\ Len(data) < MaxLen
    /\ \E b \in Byte : data' = Append(data, b)

Next == Receive

Spec == Init /\ [][Next]_data

Slice(s, from, to) == SubSeq(s, from + 1, to)    \* s[from:to]

(***************************************************************************)
(* Encoding.                                                               *)
(***************************************************************************)
\* Big-endian, two bytes: appendU16 panics unless n fits.
U16(n) == <<n \div Base, n % Base>>

Shift(n) == n \div Base    \* n >> 8

U32(n) == <<Shift(Shift(Shift(n))) % Base, Shift(Shift(n)) % Base,
            Shift(n) % Base, n % Base>>

MarshalInit(id, sig) == U16(Len(id)) \o id \o U16(Len(sig)) \o sig

buildRespIDPayload(id, sig) == MarshalInit(id, sig)    \* the same format

MarshalResponse(ct, enc) == ct \o U16(Len(enc)) \o enc

MarshalXWing(mlkem, x25519) == mlkem \o x25519

MarshalIdentity(pub) ==
    pub.ed \o pub.dsa \o MarshalXWing(pub.mlkem, pub.x25519)

(***************************************************************************)
(* Decoding in Go.                                                         *)
(***************************************************************************)
Fail(kind)   == [err |-> kind, first |-> <<>>, second |-> <<>>]
Parsed(a, b) == [err |-> "none", first |-> a, second |-> b]

ShortRead == [ok |-> FALSE, val |-> <<>>, rest |-> <<>>]

readN(buf, n) ==
    IF Len(buf) < n THEN ShortRead
    ELSE [ok |-> TRUE, val |-> Slice(buf, 0, n), rest |-> Slice(buf, n, Len(buf))]

readU16(buf) == readN(buf, 2)

Value(u) == u.val[1] * Base + u.val[2]

\* readU16, then readN of that many bytes.
ReadField(buf) ==
    LET u == readU16(buf)
    IN  IF u.ok THEN readN(u.rest, Value(u)) ELSE ShortRead

EmptyAlways(buf) == TRUE    \* mutant: bytes after the last field are ignored

empty(buf) == buf = <<>>

parseHandshakeInit(d) ==
    LET id  == ReadField(d)
        sig == ReadField(id.rest)
    IN  IF ~id.ok \/ ~sig.ok THEN Fail("short")
        ELSE IF ~empty(sig.rest) THEN Fail("invalid")
        ELSE Parsed(id.val, sig.val)

splitRespIDPayload(d) == parseHandshakeInit(d)

parseHandshakeResponse(d) ==
    LET ct  == readN(d, CiphertextSize)
        enc == ReadField(ct.rest)
    IN  IF Len(d) < CiphertextSize + 2 THEN Fail("invalid")
        ELSE IF ~enc.ok THEN Fail("short")
        ELSE IF ~empty(enc.rest) THEN Fail("invalid")
        ELSE Parsed(ct.val, enc.val)

XWingPublicKeySize == KeySizes.mlkem + KeySizes.x25519
IdentityPublicSize == KeySizes.ed + KeySizes.dsa + XWingPublicKeySize

\* The size check, and the error of a key that its library refuses.  A key that
\* it accepts is represented by its bytes, which Bytes gives back.
WrongSize == [err |-> "size"]
BadKey    == [err |-> "key"]

ParseXWingPublicKey(d) ==
    LET mlkem == Slice(d, 0, KeySizes.mlkem)
    IN  IF Len(d) # XWingPublicKeySize THEN WrongSize
        ELSE IF mlkem \notin MLKEMKeys THEN BadKey
        ELSE [err |-> "none", mlkem |-> mlkem,
              x25519 |-> Slice(d, KeySizes.mlkem, Len(d))]

\* mutant: the offset is not advanced past the Ed25519 key
ParseIdentityPublicOffset(d) ==
    LET dsa == Slice(d, 0, KeySizes.dsa)
        x   == ParseXWingPublicKey(Slice(d, KeySizes.ed + KeySizes.dsa, Len(d)))
    IN  IF Len(d) # IdentityPublicSize THEN WrongSize
        ELSE IF dsa \notin DSAKeys THEN BadKey
        ELSE IF x.err # "none" THEN x
        ELSE [err |-> "none", ed |-> Slice(d, 0, KeySizes.ed), dsa |-> dsa,
              mlkem |-> x.mlkem, x25519 |-> x.x25519]

ParseIdentityPublic(d) ==
    LET dsa == Slice(d, KeySizes.ed, KeySizes.ed + KeySizes.dsa)
        x   == ParseXWingPublicKey(Slice(d, KeySizes.ed + KeySizes.dsa, Len(d)))
    IN  IF Len(d) # IdentityPublicSize THEN WrongSize
        ELSE IF dsa \notin DSAKeys THEN BadKey
        ELSE IF x.err # "none" THEN x
        ELSE [err |-> "none", ed |-> Slice(d, 0, KeySizes.ed), dsa |-> dsa,
              mlkem |-> x.mlkem, x25519 |-> x.x25519]

(***************************************************************************)
(* Decoding in the ports: getUint16 and struct.unpack at an offset.        *)
(***************************************************************************)
U16At(d, i) == d[i + 1] * Base + d[i + 2]

\* mutant: a frame that ends exactly where it should is refused
decodeHandshakeInitStrict(d) ==
    LET idLen    == U16At(d, 0)
        sigLen   == U16At(d, 2 + idLen)
        sigStart == 4 + idLen
    IN  IF Len(d) < 2 \/ Len(d) < 2 + idLen + 2 \/ Len(d) <= sigStart + sigLen
        THEN Fail("short")
        ELSE IF Len(d) # sigStart + sigLen THEN Fail("invalid")
        ELSE Parsed(Slice(d, 2, 2 + idLen), Slice(d, sigStart, sigStart + sigLen))

decodeHandshakeInit(d) ==
    LET idLen    == U16At(d, 0)
        sigLen   == U16At(d, 2 + idLen)
        sigStart == 4 + idLen
    IN  IF Len(d) < 2 \/ Len(d) < 2 + idLen + 2 \/ Len(d) < sigStart + sigLen
        THEN Fail("short")
        ELSE IF Len(d) # sigStart + sigLen THEN Fail("invalid")
        ELSE Parsed(Slice(d, 2, 2 + idLen), Slice(d, sigStart, sigStart + sigLen))

decodeHandshakeResponse(d) ==
    LET encLen   == U16At(d, CiphertextSize)
        encStart == CiphertextSize + 2
    IN  IF Len(d) < CiphertextSize + 2 THEN Fail("invalid")
        ELSE IF Len(d) < encStart + encLen THEN Fail("short")
        ELSE IF Len(d) # encStart + encLen THEN Fail("invalid")
        ELSE Parsed(Slice(d, 0, CiphertextSize),
                    Slice(d, encStart, encStart + encLen))

(***************************************************************************)
(* What is hashed, after a constant prefix.                                *)
(***************************************************************************)
transcriptNoLength(initPub, ct) == initPub \o U32(Len(ct)) \o ct    \* mutant

transcript(initPub, ct) == U32(Len(initPub)) \o initPub \o U32(Len(ct)) \o ct

identityDigestNoLength(ctx, message) == ctx \o message    \* mutant

identityDigest(ctx, message) == <<Len(ctx) % Base>> \o ctx \o message

-----------------------------------------------------------------------------
Accepted(p) == p.err = "none"

\* The contiguous parts of the frame: every candidate for a field of it.
Parts == {SubSeq(data, i, j) : i \in 1..(Len(data) + 1), j \in 0..Len(data)}

\* Every encoding ends with its last field.
Ends == {SubSeq(data, i, Len(data)) : i \in 1..(Len(data) + 1)}

\* The parsers accept exactly the encodings: what is accepted encodes back to
\* the same bytes, so a message has one encoding and nothing rides along behind
\* it; and what is refused, with whatever error, encodes no message at all.
AcceptsExactlyEncodings ==
    /\ LET p == parseHandshakeInit(data)
       IN  IF Accepted(p) THEN MarshalInit(p.first, p.second) = data
           ELSE \A id \in Parts, sig \in Ends : MarshalInit(id, sig) # data
    /\ LET p == splitRespIDPayload(data)
       IN  IF Accepted(p) THEN buildRespIDPayload(p.first, p.second) = data
           ELSE \A id \in Parts, sig \in Ends : buildRespIDPayload(id, sig) # data
    /\ LET p == parseHandshakeResponse(data)
       IN  IF Accepted(p) THEN /\ MarshalResponse(p.first, p.second) = data
                               /\ Len(p.first) = CiphertextSize
           ELSE \A ct \in Parts, enc \in Ends :
                  Len(ct) = CiphertextSize => MarshalResponse(ct, enc) # data

\* The identities whose keys the libraries accept and that this frame may hold.
Identities ==
    [ed     : {p \in Parts : Len(p) = KeySizes.ed},
     dsa    : Parts \cap DSAKeys,
     mlkem  : Parts \cap MLKEMKeys,
     x25519 : {p \in Ends : Len(p) = KeySizes.x25519}]

\* A public identity that parses is cut into keys that are its parts in order and
\* that the libraries accept: marshalling them gives the same bytes, so the
\* identity a signature covers is the one whose keys are used.  What is refused,
\* for its size or for one of its keys, is no identity with acceptable keys.
IdentityRoundTrip ==
    LET pub == ParseIdentityPublic(data)
    IN  IF Accepted(pub)
        THEN /\ MarshalIdentity(pub) = data
             /\ \A k \in DOMAIN KeySizes : Len(pub[k]) = KeySizes[k]
             /\ pub.dsa \in DSAKeys
             /\ pub.mlkem \in MLKEMKeys
        ELSE \A id \in Identities : MarshalIdentity(id) # data

\* A frame cut short is never taken for another message: no accepted frame is a
\* proper prefix of an accepted frame of its kind.
PrefixFree ==
    \A n \in 0..(Len(data) - 1) :
        LET cut == SubSeq(data, 1, n)
        IN  /\ Accepted(parseHandshakeInit(data)) =>
                    ~Accepted(parseHandshakeInit(cut))
            /\ Accepted(parseHandshakeResponse(data)) =>
                    ~Accepted(parseHandshakeResponse(cut))

\* The ports agree with Go on every input: the same fields, or the same error.
PortsAgree ==
    /\ decodeHandshakeInit(data) = parseHandshakeInit(data)
    /\ decodeHandshakeResponse(data) = parseHandshakeResponse(data)

\* What the responder signs names one identity and one ciphertext: no two
\* choices are hashed as the same bytes.
TranscriptUnambiguous ==
    LET readings == {p \in Parts \X Ends : transcript(p[1], p[2]) = data}
    IN  \A p, q \in readings : p = q

\* What an identity signs names one context and one message, even when a context
\* is a prefix of another.
DigestUnambiguous ==
    LET readings == {p \in Labels \X Ends : identityDigest(p[1], p[2]) = data}
    IN  \A p, q \in readings : p = q
=============================================================================
