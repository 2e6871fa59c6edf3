---------------------------- MODULE CodecProofs ----------------------------
(***************************************************************************)
(* Theorems about Codec: for every frame, whatever its length, and every   *)
(* value of Base, of the ciphertext's size and of the key sizes.           *)
(*                                                                         *)
(* The decoders of the ports name every field by its offset in the frame.  *)
(* The parsers of Go are shown equal to them first, and all else is proved *)
(* from the offsets.                                                       *)
(***************************************************************************)
EXTENDS Codec, SequenceTheorems, TLAPS

(***************************************************************************)
(* Numbers in base Base.                                                   *)
(***************************************************************************)
LEMMA BaseFact == Base \in Nat /\ Base > 1
BY CodecAssumption

\* A number is the quotient and the remainder of its division.
LEMMA Digits ==
    ASSUME NEW B \in Nat \ {0}, NEW n \in Nat
    PROVE  /\ n \div B \in Nat
           /\ n % B \in 0..(B - 1)
           /\ n = (n \div B) * B + (n % B)
OBVIOUS

\* And a quotient and a remainder are those of one number.
LEMMA FromDigits ==
    ASSUME NEW B \in Nat \ {0}, NEW a \in Nat, NEW b \in 0..(B - 1)
    PROVE  /\ a * B + b \in Nat
           /\ (a * B + b) \div B = a
           /\ (a * B + b) % B = b
<1>1. a * B + b \in Nat
    OBVIOUS
<1>2. (a * B + b) \div B = a
    OBVIOUS
<1>3. (a * B + b) % B = b
    BY <1>1, <1>2, Digits
<1> QED
    BY <1>1, <1>2, <1>3

\* The two bytes that the frames write for a length weigh what it is; the
\* second alone is reduced, so this holds of every length.
LEMMA U16Fact ==
    ASSUME NEW n \in Nat
    PROVE  /\ U16(n) \in Seq(Nat)
           /\ Len(U16(n)) = 2
           /\ U16(n)[1] \in Nat
           /\ U16(n)[2] \in Nat
           /\ U16(n)[1] * Base + U16(n)[2] = n
<1>1. /\ n \div Base \in Nat
      /\ n % Base \in 0..(Base - 1)
      /\ n = (n \div Base) * Base + (n % Base)
  <2>1. Base \in Nat \ {0}
      BY BaseFact
  <2> QED
      BY <2>1, Digits
<1> QED
    BY <1>1, BaseFact DEF U16

\* A length read from two bytes is written as those two bytes.
LEMMA U16Inverse ==
    ASSUME NEW a \in Byte, NEW b \in Byte
    PROVE  /\ a * Base + b \in Nat
           /\ U16(a * Base + b) = <<a, b>>
<1>1. /\ a \in Nat
      /\ b \in 0..(Base - 1)
    BY BaseFact DEF Byte
<1> QED
    BY <1>1, BaseFact, FromDigits DEF U16

(***************************************************************************)
(* Slices.                                                                 *)
(***************************************************************************)
LEMMA SliceFact ==
    ASSUME NEW T, NEW s \in Seq(T), NEW to \in 0..Len(s), NEW from \in 0..to
    PROVE  /\ Slice(s, from, to) \in Seq(T)
           /\ Len(Slice(s, from, to)) = to - from
           /\ \A i \in 1..(to - from) : Slice(s, from, to)[i] = s[from + i]
BY SubSeqProperties DEF Slice

\* z is s[from:to].
IsSlice(z, T, s, from, to) ==
    /\ z \in Seq(T)
    /\ Len(z) = to - from
    /\ \A i \in 1..(to - from) : z[i] = s[from + i]

\* What data[from:to] is, as one fact that the proofs cite.
LEMMA SliceIs ==
    ASSUME NEW T, NEW s \in Seq(T), NEW to \in 0..Len(s), NEW from \in 0..to
    PROVE  IsSlice(Slice(s, from, to), T, s, from, to)
BY SliceFact DEF IsSlice

\* data[a:], what a parser has left.
LEMMA SuffixFact ==
    ASSUME NEW T, NEW s \in Seq(T), NEW a \in 0..Len(s)
    PROVE  /\ Slice(s, a, Len(s)) \in Seq(T)
           /\ Len(Slice(s, a, Len(s))) = Len(s) - a
           /\ \A i \in 1..(Len(s) - a) : Slice(s, a, Len(s))[i] = s[a + i]
<1>1. PICK n : n = Len(s)
    OBVIOUS
<1>2. n \in 0..Len(s) /\ a \in 0..n
    BY <1>1
<1>3. /\ Slice(s, a, n) \in Seq(T)
      /\ Len(Slice(s, a, n)) = n - a
      /\ \A i \in 1..(n - a) : Slice(s, a, n)[i] = s[a + i]
    BY <1>2, SliceFact
<1> QED
    BY <1>1, <1>3

\* Cutting into what is left is cutting into the whole further on.
LEMMA SliceOfSlice ==
    ASSUME NEW T, NEW s \in Seq(T), NEW a \in 0..Len(s),
           NEW to \in 0..(Len(s) - a), NEW from \in 0..to
    PROVE  Slice(Slice(s, a, Len(s)), from, to) = Slice(s, a + from, a + to)
<1>1. PICK t : t = Slice(s, a, Len(s))
    OBVIOUS
<1>2. /\ t \in Seq(T)
      /\ Len(t) = Len(s) - a
      /\ \A i \in 1..(Len(s) - a) : t[i] = s[a + i]
    BY <1>1, SuffixFact
<1>3. PICK x : x = Slice(t, from, to)
    OBVIOUS
<1>4. /\ x \in Seq(T)
      /\ Len(x) = to - from
      /\ \A i \in 1..(to - from) : x[i] = t[from + i]
  <2>1. to \in 0..Len(t) /\ t \in Seq(T)
      BY <1>2
  <2>2. IsSlice(Slice(t, from, to), T, t, from, to)
      BY <2>1, SliceIs
  <2> QED
      BY <1>3, <2>2 DEF IsSlice
<1>5. PICK y : y = Slice(s, a + from, a + to)
    OBVIOUS
<1>6. /\ y \in Seq(T)
      /\ Len(y) = to - from
      /\ \A i \in 1..(to - from) : y[i] = s[(a + from) + i]
  <2>1. PICK u, v : u = a + to /\ v = a + from
      OBVIOUS
  <2>2. u \in 0..Len(s) /\ v \in 0..u /\ u - v = to - from
      BY <2>1
  <2>3. /\ Slice(s, v, u) \in Seq(T)
        /\ Len(Slice(s, v, u)) = u - v
        /\ \A i \in 1..(u - v) : Slice(s, v, u)[i] = s[v + i]
      BY <2>2, SliceFact
  <2> QED
      BY <1>5, <2>1, <2>2, <2>3
<1>7. \A i \in 1..Len(x) : x[i] = y[i]
  <2> SUFFICES ASSUME NEW i \in 1..(to - from) PROVE x[i] = y[i]
      BY <1>4
  <2>1. PICK j : j = from + i
      OBVIOUS
  <2>2. j \in 1..(Len(s) - a) /\ a + j = (a + from) + i
      BY <2>1
  <2> QED
      BY <1>2, <1>4, <1>6, <2>1, <2>2
<1>8. x = y
    BY <1>4, <1>6, <1>7, SeqEqual
<1> QED
    BY <1>1, <1>3, <1>5, <1>8

\* data[0:len(data)] is data.
LEMMA SliceAll ==
    ASSUME NEW T, NEW s \in Seq(T)
    PROVE  Slice(s, 0, Len(s)) = s
BY SubSeqFull DEF Slice

(***************************************************************************)
(* Go's readers, by offsets.                                               *)
(***************************************************************************)
LEMMA U16AtFact ==
    ASSUME NEW s \in Seq(Byte), NEW a \in Nat, a + 2 <= Len(s)
    PROVE  /\ U16At(s, a) \in Nat
           /\ s[a + 1] \in Byte
           /\ s[a + 2] \in Byte
           /\ U16(U16At(s, a)) = <<s[a + 1], s[a + 2]>>
<1>1. s[a + 1] \in Byte /\ s[a + 2] \in Byte
    OBVIOUS
<1> QED
    BY <1>1, U16Inverse DEF U16At

\* A field read where a bytes of the frame have been consumed.
LEMMA ReadFieldFact ==
    ASSUME NEW s \in Seq(Byte), NEW a \in 0..Len(s)
    PROVE  ReadField(Slice(s, a, Len(s))) =
             IF Len(s) < a + 2 \/ Len(s) < a + 2 + U16At(s, a) THEN ShortRead
             ELSE [ok |-> TRUE,
                   val |-> Slice(s, a + 2, a + 2 + U16At(s, a)),
                   rest |-> Slice(s, a + 2 + U16At(s, a), Len(s))]
<1>1. PICK t : t = Slice(s, a, Len(s))
    OBVIOUS
<1>2. /\ t \in Seq(Byte)
      /\ Len(t) = Len(s) - a
      /\ \A i \in 1..(Len(s) - a) : t[i] = s[a + i]
    BY <1>1, SuffixFact
<1>3. CASE Len(s) < a + 2
  <2>1. Len(t) < 2
      BY <1>2, <1>3
  <2>2. readU16(t) = ShortRead
      BY <2>1 DEF readU16, readN
  <2>3. ReadField(t) = ShortRead
      BY <2>2 DEF ReadField, ShortRead
  <2> QED
      BY <1>1, <1>3, <2>3
<1>4. CASE a + 2 <= Len(s)
  <2>1. ~(Len(t) < 2)
      BY <1>2, <1>4
  <2>2. PICK n : n = U16At(s, a)
      OBVIOUS
  <2>3. n \in Nat
      BY <1>4, <2>2, U16AtFact
  <2>4. PICK x, r : x = Slice(t, 0, 2) /\ r = Slice(t, 2, Len(t))
      OBVIOUS
  <2>5. readU16(t) = [ok |-> TRUE, val |-> x, rest |-> r]
      BY <2>1, <2>4 DEF readU16, readN
  <2>6. x[1] = s[a + 1] /\ x[2] = s[a + 2]
    <3>1. x[1] = t[1] /\ x[2] = t[2]
      <4>1. 2 \in 0..Len(t) /\ 0 \in 0..2
          BY <1>2, <2>1
      <4>2. \A i \in 1..(2 - 0) : x[i] = t[0 + i]
        <5>1. IsSlice(Slice(t, 0, 2), Byte, t, 0, 2)
            BY <1>2, <4>1, SliceIs
        <5> QED
            BY <2>4, <5>1 DEF IsSlice
      <4> QED
          BY <4>2
    <3> QED
        BY <1>2, <1>4, <3>1
  <2>7. r = Slice(s, a + 2, Len(s))
    <3>1. PICK m : m = Len(s) - a
        OBVIOUS
    <3>2. m \in 0..(Len(s) - a) /\ 2 \in 0..m /\ a + m = Len(s)
        BY <1>4, <3>1
    <3>3. Slice(Slice(s, a, Len(s)), 2, m) = Slice(s, a + 2, a + m)
        BY <3>2, SliceOfSlice
    <3>4. r = Slice(t, 2, m)
        BY <1>2, <2>4, <3>1
    <3> QED
        BY <1>1, <3>2, <3>3, <3>4
  <2>8. Value(readU16(t)) = n
      BY <2>2, <2>5, <2>6 DEF Value, U16At
  <2>9. ReadField(t) = readN(r, n)
      BY <2>5, <2>8 DEF ReadField
  <2>10. PICK b : b = a + 2
      OBVIOUS
  <2>11. b \in 0..Len(s)
      BY <1>4, <2>10
  <2>12. Len(r) = Len(s) - b
      BY <2>7, <2>10, <2>11, SuffixFact
  <2>13. CASE Len(s) < b + n
    <3>1. Len(r) < n
        BY <2>3, <2>11, <2>12, <2>13
    <3>2. ReadField(t) = ShortRead
        BY <2>9, <3>1 DEF readN
    <3> QED
        BY <1>1, <2>2, <2>10, <2>13, <3>2
  <2>14. CASE b + n <= Len(s)
    <3>1. /\ ~(Len(r) < n)
          /\ n \in 0..(Len(s) - b)
          /\ Len(r) \in 0..(Len(s) - b)
          /\ n \in 0..Len(r)
          /\ b + Len(r) = Len(s)
        BY <2>3, <2>11, <2>12, <2>14
    <3>2. Slice(r, 0, n) = Slice(s, b, b + n)
        BY <2>7, <2>10, <2>11, <3>1, SliceOfSlice
    <3>3. Slice(r, n, Len(r)) = Slice(s, b + n, Len(s))
      <4>1. PICK m : m = Len(r)
          OBVIOUS
      <4>2. m \in 0..(Len(s) - b) /\ n \in 0..m /\ b + m = Len(s)
          BY <3>1, <4>1
      <4>3. Slice(Slice(s, b, Len(s)), n, m) = Slice(s, b + n, b + m)
          BY <2>11, <4>2, SliceOfSlice
      <4> QED
          BY <2>7, <2>10, <4>1, <4>2, <4>3
    <3>4. ReadField(t) = [ok |-> TRUE, val |-> Slice(s, b, b + n),
                          rest |-> Slice(s, b + n, Len(s))]
        BY <2>9, <3>1, <3>2, <3>3 DEF readN
    <3>5. ~(Len(s) < a + 2) /\ ~(Len(s) < a + 2 + n)
        BY <1>4, <2>3, <2>10, <2>11, <2>14
    <3> QED
        BY <1>1, <2>2, <2>10, <3>4, <3>5
  <2> QED
      BY <2>3, <2>11, <2>13, <2>14
<1> QED
    BY <1>3, <1>4

(***************************************************************************)
(* The ports' decoders and Go's parsers are the same functions.            *)
(***************************************************************************)
LEMMA RestEmpty ==
    ASSUME NEW s \in Seq(Byte), NEW a \in 0..Len(s)
    PROVE  empty(Slice(s, a, Len(s))) <=> Len(s) = a
<1>1. PICK t : t = Slice(s, a, Len(s))
    OBVIOUS
<1>2. t \in Seq(Byte) /\ Len(t) = Len(s) - a
    BY <1>1, SuffixFact
<1>3. t = <<>> <=> Len(t) = 0
    BY <1>2, EmptySeq
<1>4. Len(t) = 0 <=> Len(s) = a
    BY <1>2
<1> QED
    BY <1>1, <1>3, <1>4 DEF empty

\* parseHandshakeInit, that walks a rest, and the port's decoder, that adds
\* to an offset, take the same frames to the same fields.
LEMMA InitParsersAgree ==
    ASSUME NEW d \in Seq(Byte)
    PROVE  parseHandshakeInit(d) = decodeHandshakeInit(d)
<1>1. PICK n : n = U16At(d, 0)
    OBVIOUS
<1>2. PICK id : id = ReadField(d)
    OBVIOUS
<1>3. id = IF Len(d) < 2 \/ Len(d) < 2 + n THEN ShortRead
           ELSE [ok |-> TRUE, val |-> Slice(d, 2, 2 + n),
                 rest |-> Slice(d, 2 + n, Len(d))]
  <2>1. Slice(d, 0, Len(d)) = d
      BY SliceAll
  <2>2. 0 \in 0..Len(d) /\ 0 + 2 = 2
      OBVIOUS
  <2> QED
      BY <1>1, <1>2, <2>1, <2>2, ReadFieldFact
<1>4. PICK sig : sig = ReadField(id.rest)
    OBVIOUS
<1>5. parseHandshakeInit(d) =
        IF ~id.ok \/ ~sig.ok THEN Fail("short")
        ELSE IF ~empty(sig.rest) THEN Fail("invalid")
        ELSE Parsed(id.val, sig.val)
    BY <1>2, <1>4 DEF parseHandshakeInit
<1>6. PICK m : m = U16At(d, 2 + n)
    OBVIOUS
<1>7. decodeHandshakeInit(d) =
        IF Len(d) < 2 \/ Len(d) < 2 + n + 2 \/ Len(d) < 4 + n + m
        THEN Fail("short")
        ELSE IF Len(d) # 4 + n + m THEN Fail("invalid")
        ELSE Parsed(Slice(d, 2, 2 + n), Slice(d, 4 + n, 4 + n + m))
    BY <1>1, <1>6 DEF decodeHandshakeInit
<1>8. CASE Len(d) < 2
    BY <1>3, <1>5, <1>7, <1>8 DEF ShortRead
<1>9. CASE 2 <= Len(d)
  <2>1. n \in Nat
      BY <1>1, <1>9, U16AtFact
  <2>2. CASE Len(d) < 2 + n
    <3>1. Len(d) < 2 + n + 2
        BY <2>1, <2>2
    <3> QED
        BY <1>3, <1>5, <1>7, <2>2, <3>1 DEF ShortRead
  <2>3. CASE 2 + n <= Len(d)
    <3>1. PICK a : a = 2 + n
        OBVIOUS
    <3>2. a \in 0..Len(d) /\ a + 2 = 4 + n
        BY <2>1, <2>3, <3>1
    <3>3. id = [ok |-> TRUE, val |-> Slice(d, 2, a), rest |-> Slice(d, a, Len(d))]
      <4>1. ~(Len(d) < 2) /\ ~(Len(d) < 2 + n)
          BY <1>9, <2>1, <2>3
      <4> QED
          BY <1>3, <3>1, <4>1
    <3>4. sig = IF Len(d) < a + 2 \/ Len(d) < a + 2 + m THEN ShortRead
                ELSE [ok |-> TRUE, val |-> Slice(d, a + 2, a + 2 + m),
                      rest |-> Slice(d, a + 2 + m, Len(d))]
        BY <1>4, <1>6, <3>1, <3>2, <3>3, ReadFieldFact
    <3>5. CASE Len(d) < a + 2
      <4>1. sig = ShortRead
          BY <3>4, <3>5
      <4>2. Len(d) < 2 + n + 2
          BY <2>1, <3>1, <3>5
      <4> QED
          BY <1>5, <1>7, <4>1, <4>2 DEF ShortRead
    <3>6. CASE a + 2 <= Len(d)
      <4>1. m \in Nat
          BY <1>6, <3>1, <3>2, <3>6, U16AtFact
      <4>2. PICK b : b = a + 2
          OBVIOUS
      <4>3. /\ b \in 0..Len(d) /\ b = 4 + n
            /\ ~(Len(d) < 2) /\ ~(Len(d) < 2 + n + 2) /\ ~(Len(d) < b)
          BY <1>9, <2>1, <3>1, <3>2, <3>6, <4>2
      <4>4. CASE Len(d) < b + m
        <5>1. sig = ShortRead
            BY <3>4, <4>2, <4>4
        <5> QED
            BY <1>5, <1>7, <4>3, <4>4, <5>1 DEF ShortRead
      <4>5. CASE b + m <= Len(d)
        <5>1. ~(Len(d) < b + m) /\ b + m \in 0..Len(d)
            BY <4>1, <4>3, <4>5
        <5>2. sig = [ok |-> TRUE, val |-> Slice(d, b, b + m),
                     rest |-> Slice(d, b + m, Len(d))]
            BY <3>4, <4>2, <4>3, <5>1
        <5>3. empty(sig.rest) <=> Len(d) = b + m
            BY <5>1, <5>2, RestEmpty
        <5>4. decodeHandshakeInit(d) =
                IF Len(d) # b + m THEN Fail("invalid")
                ELSE Parsed(Slice(d, 2, a), Slice(d, b, b + m))
            BY <1>7, <3>1, <4>3, <5>1
        <5>5. parseHandshakeInit(d) =
                IF ~empty(sig.rest) THEN Fail("invalid")
                ELSE Parsed(Slice(d, 2, a), Slice(d, b, b + m))
            BY <1>5, <3>3, <5>2
        <5> QED
            BY <5>3, <5>4, <5>5
      <4> QED
          BY <4>1, <4>3, <4>4, <4>5
    <3> QED
        BY <3>2, <3>5, <3>6
  <2> QED
      BY <2>1, <2>2, <2>3
<1> QED
    BY <1>8, <1>9

\* So do the two parsers of the response.
LEMMA ResponseParsersAgree ==
    ASSUME NEW d \in Seq(Byte)
    PROVE  parseHandshakeResponse(d) = decodeHandshakeResponse(d)
<1>c. CiphertextSize \in Nat
    BY CodecAssumption
<1>1. PICK c, a : c = CiphertextSize /\ a = c + 2
    OBVIOUS
<1>2. PICK m : m = U16At(d, c)
    OBVIOUS
<1>3. decodeHandshakeResponse(d) =
        IF Len(d) < a THEN Fail("invalid")
        ELSE IF Len(d) < a + m THEN Fail("short")
        ELSE IF Len(d) # a + m THEN Fail("invalid")
        ELSE Parsed(Slice(d, 0, c), Slice(d, a, a + m))
    BY <1>1, <1>2 DEF decodeHandshakeResponse
<1>4. CASE Len(d) < a
  <2>1. parseHandshakeResponse(d) = Fail("invalid")
      BY <1>1, <1>4 DEF parseHandshakeResponse
  <2> QED
      BY <1>3, <1>4, <2>1
<1>5. CASE a <= Len(d)
  <2>1. c \in 0..Len(d) /\ ~(Len(d) < c) /\ ~(Len(d) < a) /\ a \in 0..Len(d)
      BY <1>c, <1>1, <1>5
  <2>2. m \in Nat
      BY <1>1, <1>2, <1>5, <2>1, U16AtFact
  <2>3. PICK ct, enc : ct = readN(d, c) /\ enc = ReadField(ct.rest)
      OBVIOUS
  <2>4. ct = [ok |-> TRUE, val |-> Slice(d, 0, c), rest |-> Slice(d, c, Len(d))]
      BY <2>1, <2>3 DEF readN
  <2>5. enc = IF Len(d) < a \/ Len(d) < a + m THEN ShortRead
              ELSE [ok |-> TRUE, val |-> Slice(d, a, a + m),
                    rest |-> Slice(d, a + m, Len(d))]
      BY <1>1, <1>2, <2>1, <2>3, <2>4, ReadFieldFact
  <2>6. parseHandshakeResponse(d) =
          IF ~enc.ok THEN Fail("short")
          ELSE IF ~empty(enc.rest) THEN Fail("invalid")
          ELSE Parsed(Slice(d, 0, c), enc.val)
      BY <1>1, <2>1, <2>3, <2>4 DEF parseHandshakeResponse
  <2>7. CASE Len(d) < a + m
      BY <1>3, <2>1, <2>5, <2>6, <2>7 DEF ShortRead
  <2>8. CASE a + m <= Len(d)
    <3>1. ~(Len(d) < a + m) /\ a + m \in 0..Len(d)
        BY <2>1, <2>2, <2>8
    <3>2. enc = [ok |-> TRUE, val |-> Slice(d, a, a + m),
                 rest |-> Slice(d, a + m, Len(d))]
        BY <2>1, <2>5, <3>1
    <3>3. empty(enc.rest) <=> Len(d) = a + m
        BY <3>1, <3>2, RestEmpty
    <3> QED
        BY <1>3, <2>1, <2>6, <3>1, <3>2, <3>3
  <2> QED
      BY <2>1, <2>2, <2>7, <2>8
<1> QED
    BY <1>c, <1>1, <1>4, <1>5

(***************************************************************************)
(* Encoders and decoders are inverse.                                      *)
(***************************************************************************)
LEMMA BytesAreNats == \A s \in Seq(Byte) : s \in Seq(Nat)
<1>1. \A b \in Byte : b \in Nat
    BY BaseFact DEF Byte
<1> QED
    BY <1>1

\* y is x, then f.
IsConcat(y, x, f) ==
    /\ y \in Seq(Nat)
    /\ Len(y) = Len(x) + Len(f)
    /\ \A i \in 1..(Len(x) + Len(f)) :
          y[i] = IF i <= Len(x) THEN x[i] ELSE f[i - Len(x)]

\* What follows x in a concatenation.
LEMMA ConcatFact ==
    ASSUME NEW x \in Seq(Nat), NEW f \in Seq(Nat)
    PROVE  IsConcat(x \o f, x, f)
BY ConcatProperties DEF IsConcat

\* y is x, then the length of f, then f.
HasField(y, x, f) ==
    /\ y \in Seq(Nat)
    /\ Len(y) = Len(x) + 2 + Len(f)
    /\ \A i \in 1..Len(x) : y[i] = x[i]
    /\ y[Len(x) + 1] = U16(Len(f))[1]
    /\ y[Len(x) + 2] = U16(Len(f))[2]
    /\ U16At(y, Len(x)) = Len(f)
    /\ \A i \in 1..Len(f) : y[Len(x) + 2 + i] = f[i]

\* A field written behind x: its length, then its bytes.
LEMMA FieldFact ==
    ASSUME NEW x \in Seq(Nat), NEW f \in Seq(Nat)
    PROVE  HasField(x \o U16(Len(f)) \o f, x, f)
<1>0. PICK y : y = x \o U16(Len(f)) \o f
    OBVIOUS
<1>1. PICK u : u = U16(Len(f))
    OBVIOUS
<1>2. u \in Seq(Nat) /\ Len(u) = 2 /\ u[1] * Base + u[2] = Len(f)
  <2>1. Len(f) \in Nat
      OBVIOUS
  <2> QED
      BY <1>1, <2>1, U16Fact
<1>3. PICK z : z = x \o u
    OBVIOUS
<1>4. /\ z \in Seq(Nat)
      /\ Len(z) = Len(x) + 2
      /\ \A i \in 1..(Len(x) + 2) :
            z[i] = IF i <= Len(x) THEN x[i] ELSE u[i - Len(x)]
  <2>1. /\ z \in Seq(Nat)
        /\ Len(z) = Len(x) + Len(u)
        /\ \A i \in 1..(Len(x) + Len(u)) :
              z[i] = IF i <= Len(x) THEN x[i] ELSE u[i - Len(x)]
      BY <1>2, <1>3, ConcatFact DEF IsConcat
  <2> QED
      BY <1>2, <2>1
<1>5. /\ y \in Seq(Nat)
      /\ Len(y) = Len(z) + Len(f)
      /\ \A i \in 1..(Len(z) + Len(f)) :
            y[i] = IF i <= Len(z) THEN z[i] ELSE f[i - Len(z)]
  <2>1. y = z \o f
      BY <1>0, <1>1, <1>3
  <2> QED
      BY <1>4, <2>1, ConcatFact DEF IsConcat
<1>6. Len(x) \in Nat /\ Len(f) \in Nat
    OBVIOUS
<1>7. \A i \in 1..Len(x) : y[i] = x[i]
  <2> SUFFICES ASSUME NEW i \in 1..Len(x) PROVE y[i] = x[i]
      OBVIOUS
  <2>1. /\ i \in 1..(Len(x) + 2) /\ i <= Len(x)
        /\ i \in 1..(Len(z) + Len(f)) /\ i <= Len(z)
      BY <1>4, <1>6
  <2>2. y[i] = z[i]
      BY <1>5, <2>1
  <2>3. z[i] = x[i]
      BY <1>4, <2>1
  <2> QED
      BY <2>2, <2>3
<1>8. y[Len(x) + 1] = u[1] /\ y[Len(x) + 2] = u[2]
  <2>1. ASSUME NEW k \in 1..2 PROVE y[Len(x) + k] = u[k]
    <3>1. PICK i : i = Len(x) + k
        OBVIOUS
    <3>2. /\ i \in 1..(Len(x) + 2) /\ ~(i <= Len(x)) /\ i - Len(x) = k
          /\ i \in 1..(Len(z) + Len(f)) /\ i <= Len(z)
        BY <1>4, <1>6, <3>1
    <3>3. y[i] = z[i]
        BY <1>5, <3>2
    <3>4. z[i] = u[k]
        BY <1>4, <3>2
    <3> QED
        BY <3>1, <3>3, <3>4
  <2> QED
      BY <2>1
<1>9. \A i \in 1..Len(f) : y[Len(x) + 2 + i] = f[i]
  <2> SUFFICES ASSUME NEW i \in 1..Len(f) PROVE y[Len(x) + 2 + i] = f[i]
      OBVIOUS
  <2>1. PICK j : j = Len(x) + 2 + i
      OBVIOUS
  <2>2. j \in 1..(Len(z) + Len(f)) /\ ~(j <= Len(z)) /\ j - Len(z) = i
      BY <1>4, <1>6, <2>1
  <2> QED
      BY <1>5, <2>1, <2>2
<1>10. U16At(y, Len(x)) = Len(f)
    BY <1>2, <1>8 DEF U16At
<1> QED
    BY <1>0, <1>1, <1>4, <1>5, <1>7, <1>8, <1>9, <1>10 DEF HasField

\* The bytes of an init frame.
IsInit(y, id, sig) ==
    /\ y \in Seq(Nat)
    /\ Len(y) = 4 + Len(id) + Len(sig)
    /\ y[1] = U16(Len(id))[1]
    /\ y[2] = U16(Len(id))[2]
    /\ U16At(y, 0) = Len(id)
    /\ \A i \in 1..Len(id) : y[2 + i] = id[i]
    /\ y[2 + Len(id) + 1] = U16(Len(sig))[1]
    /\ y[2 + Len(id) + 2] = U16(Len(sig))[2]
    /\ U16At(y, 2 + Len(id)) = Len(sig)
    /\ \A i \in 1..Len(sig) : y[4 + Len(id) + i] = sig[i]

\* Where each part of a marshalled init lies.
LEMMA MarshalInitFact ==
    ASSUME NEW id \in Seq(Nat), NEW sig \in Seq(Nat)
    PROVE  IsInit(MarshalInit(id, sig), id, sig)
<1>0. PICK y : y = MarshalInit(id, sig)
    OBVIOUS
<1>1. PICK x : x = U16(Len(id)) \o id
    OBVIOUS
<1>2. /\ x \in Seq(Nat)
      /\ Len(x) = 2 + Len(id)
      /\ x[1] = U16(Len(id))[1]
      /\ x[2] = U16(Len(id))[2]
      /\ U16At(x, 0) = Len(id)
      /\ \A i \in 1..Len(id) : x[2 + i] = id[i]
  <2>1. PICK e : e = <<>>
      OBVIOUS
  <2>2. e \in Seq(Nat) /\ Len(e) = 0
      BY <2>1
  <2>3. e \o U16(Len(id)) = U16(Len(id))
      BY <2>1, U16Fact, ConcatEmptySeq
  <2>4. x = e \o U16(Len(id)) \o id
      BY <1>1, <2>3
  <2>5. /\ x \in Seq(Nat)
        /\ Len(x) = Len(e) + 2 + Len(id)
        /\ x[Len(e) + 1] = U16(Len(id))[1]
        /\ x[Len(e) + 2] = U16(Len(id))[2]
        /\ U16At(x, Len(e)) = Len(id)
        /\ \A i \in 1..Len(id) : x[Len(e) + 2 + i] = id[i]
    <3>1. HasField(x, e, id)
        BY <2>2, <2>4, FieldFact
    <3> QED
        BY <3>1 DEF HasField
  <2>6. 0 + 1 = 1 /\ 0 + 2 = 2
      OBVIOUS
  <2> QED
      BY <2>2, <2>5, <2>6
<1>3. y = x \o U16(Len(sig)) \o sig
    BY <1>0, <1>1 DEF MarshalInit
<1>4. /\ y \in Seq(Nat)
      /\ Len(y) = Len(x) + 2 + Len(sig)
      /\ \A i \in 1..Len(x) : y[i] = x[i]
      /\ y[Len(x) + 1] = U16(Len(sig))[1]
      /\ y[Len(x) + 2] = U16(Len(sig))[2]
      /\ U16At(y, Len(x)) = Len(sig)
      /\ \A i \in 1..Len(sig) : y[Len(x) + 2 + i] = sig[i]
  <2>1. HasField(y, x, sig)
      BY <1>2, <1>3, FieldFact
  <2> QED
      BY <2>1 DEF HasField
<1>5. Len(id) \in Nat /\ Len(sig) \in Nat
    OBVIOUS
<1>6. y[1] = x[1] /\ y[2] = x[2] /\ \A i \in 1..Len(id) : y[2 + i] = x[2 + i]
  <2>1. /\ 1 \in 1..Len(x) /\ 2 \in 1..Len(x)
        /\ \A i \in 1..Len(id) : 2 + i \in 1..Len(x)
      BY <1>2, <1>5
  <2> QED
      BY <1>4, <2>1, Zenon
<1>7. U16At(y, 0) = U16At(x, 0)
    BY <1>6 DEF U16At
<1>8. Len(x) + 2 = 4 + Len(id) /\ Len(y) = 4 + Len(id) + Len(sig)
    BY <1>2, <1>4, <1>5
<1> QED
    BY <1>0, <1>2, <1>4, <1>6, <1>7, <1>8 DEF IsInit

\* A marshalled init is parsed to the fields it was made of.
LEMMA InitDecodesEncoding ==
    ASSUME NEW id \in Seq(Byte), NEW sig \in Seq(Byte),
           MarshalInit(id, sig) \in Seq(Byte)
    PROVE  parseHandshakeInit(MarshalInit(id, sig)) = Parsed(id, sig)
<1>1. PICK y : y = MarshalInit(id, sig)
    OBVIOUS
<1>2. y \in Seq(Byte) /\ id \in Seq(Nat) /\ sig \in Seq(Nat)
    BY <1>1, BytesAreNats
<1>3. /\ Len(y) = 4 + Len(id) + Len(sig)
      /\ U16At(y, 0) = Len(id)
      /\ \A i \in 1..Len(id) : y[2 + i] = id[i]
      /\ U16At(y, 2 + Len(id)) = Len(sig)
      /\ \A i \in 1..Len(sig) : y[4 + Len(id) + i] = sig[i]
  <2>1. IsInit(y, id, sig)
      BY <1>1, <1>2, MarshalInitFact
  <2> QED
      BY <2>1 DEF IsInit
<1>4. PICK n, m : n = Len(id) /\ m = Len(sig)
    OBVIOUS
<1>5. n \in Nat /\ m \in Nat
    BY <1>4
<1>6. /\ ~(Len(y) < 2) /\ ~(Len(y) < 2 + n + 2) /\ ~(Len(y) < (4 + n) + m)
      /\ Len(y) = (4 + n) + m
    BY <1>3, <1>4, <1>5
<1>7. decodeHandshakeInit(y) =
         Parsed(Slice(y, 2, 2 + n), Slice(y, 4 + n, (4 + n) + m))
    BY <1>3, <1>4, <1>6 DEF decodeHandshakeInit
<1>8. Slice(y, 2, 2 + n) = id
  <2>1. PICK a : a = 2 + n
      OBVIOUS
  <2>2. a \in 0..Len(y) /\ 2 \in 0..a /\ a - 2 = n
      BY <1>5, <1>6, <2>1
  <2>3. PICK z : z = Slice(y, 2, a)
      OBVIOUS
  <2>4. z \in Seq(Byte) /\ Len(z) = n /\ \A i \in 1..n : z[i] = y[2 + i]
    <3>1. /\ z \in Seq(Byte) /\ Len(z) = a - 2
          /\ \A i \in 1..(a - 2) : z[i] = y[2 + i]
      <4>1. IsSlice(z, Byte, y, 2, a)
          BY <1>2, <2>2, <2>3, SliceIs
      <4> QED
          BY <4>1 DEF IsSlice
    <3> QED
        BY <2>2, <3>1
  <2>5. \A i \in 1..n : z[i] = id[i]
      BY <1>3, <1>4, <2>4
  <2>6. z = id
      BY <1>4, <2>4, <2>5, SeqEqual
  <2> QED
      BY <2>1, <2>3, <2>6
<1>9. Slice(y, 4 + n, (4 + n) + m) = sig
  <2>1. PICK a, b : a = 4 + n /\ b = a + m
      OBVIOUS
  <2>2. b \in 0..Len(y) /\ a \in 0..b /\ b - a = m
      BY <1>5, <1>6, <2>1
  <2>3. PICK z : z = Slice(y, a, b)
      OBVIOUS
  <2>4. z \in Seq(Byte) /\ Len(z) = m /\ \A i \in 1..m : z[i] = y[a + i]
    <3>1. /\ z \in Seq(Byte) /\ Len(z) = b - a
          /\ \A i \in 1..(b - a) : z[i] = y[a + i]
      <4>1. IsSlice(z, Byte, y, a, b)
          BY <1>2, <2>2, <2>3, SliceIs
      <4> QED
          BY <4>1 DEF IsSlice
    <3> QED
        BY <2>2, <3>1
  <2>5. \A i \in 1..m : z[i] = sig[i]
      BY <1>3, <1>4, <2>1, <2>4
  <2>6. z = sig
      BY <1>4, <2>4, <2>5, SeqEqual
  <2> QED
      BY <2>1, <2>3, <2>6
<1> QED
    BY <1>1, <1>2, <1>7, <1>8, <1>9, InitParsersAgree

\* When an init frame is accepted, in numbers.
LEMMA InitAccepted ==
    ASSUME NEW d \in Seq(Byte), Accepted(parseHandshakeInit(d))
    PROVE  /\ 2 <= Len(d)
           /\ U16At(d, 0) \in Nat
           /\ 4 + U16At(d, 0) <= Len(d)
           /\ U16At(d, 2 + U16At(d, 0)) \in Nat
           /\ Len(d) = 4 + U16At(d, 0) + U16At(d, 2 + U16At(d, 0))
           /\ parseHandshakeInit(d) =
                Parsed(Slice(d, 2, 2 + U16At(d, 0)), Slice(d, 4 + U16At(d, 0), Len(d)))
<1>1. PICK n, m : n = U16At(d, 0) /\ m = U16At(d, 2 + n)
    OBVIOUS
<1>2. decodeHandshakeInit(d) =
        IF Len(d) < 2 \/ Len(d) < 2 + n + 2 \/ Len(d) < 4 + n + m
        THEN Fail("short")
        ELSE IF Len(d) # 4 + n + m THEN Fail("invalid")
        ELSE Parsed(Slice(d, 2, 2 + n), Slice(d, 4 + n, 4 + n + m))
    BY <1>1 DEF decodeHandshakeInit
<1>3. parseHandshakeInit(d) = decodeHandshakeInit(d)
    BY InitParsersAgree
<1>4. Fail("short").err # "none" /\ Fail("invalid").err # "none"
    BY DEF Fail
<1>5. /\ ~(Len(d) < 2) /\ ~(Len(d) < 2 + n + 2)
      /\ Len(d) = 4 + n + m
    BY <1>2, <1>3, <1>4 DEF Accepted
<1>6. n \in Nat
  <2>1. 0 + 2 <= Len(d)
      BY <1>5
  <2> QED
      BY <1>1, <2>1, U16AtFact
<1>7. PICK a : a = 2 + n
    OBVIOUS
<1>8. a \in Nat /\ a + 2 <= Len(d)
    BY <1>5, <1>6, <1>7
<1>9. m \in Nat
    BY <1>1, <1>7, <1>8, U16AtFact
<1>10. parseHandshakeInit(d) = Parsed(Slice(d, 2, 2 + n), Slice(d, 4 + n, 4 + n + m))
  <2>1. ~(Len(d) < 4 + n + m)
      BY <1>5
  <2> QED
      BY <1>2, <1>3, <1>5, <2>1
<1>11. 2 <= Len(d) /\ 4 + n <= Len(d)
    BY <1>5, <1>6
<1> QED
    BY <1>1, <1>5, <1>6, <1>9, <1>10, <1>11

\* An init that is accepted is the encoding of what was parsed.
LEMMA InitEncodesDecoded ==
    ASSUME NEW d \in Seq(Byte), Accepted(parseHandshakeInit(d))
    PROVE  MarshalInit(parseHandshakeInit(d).first, parseHandshakeInit(d).second) = d
<1>1. PICK n, m : n = U16At(d, 0) /\ m = U16At(d, 2 + n)
    OBVIOUS
<1>2. /\ 2 <= Len(d) /\ n \in Nat /\ m \in Nat /\ Len(d) = 4 + n + m
      /\ parseHandshakeInit(d) = Parsed(Slice(d, 2, 2 + n), Slice(d, 4 + n, Len(d)))
    BY <1>1, InitAccepted
<1>3. PICK id, sig : id = Slice(d, 2, 2 + n) /\ sig = Slice(d, 4 + n, Len(d))
    OBVIOUS
<1>4. /\ parseHandshakeInit(d).first = id
      /\ parseHandshakeInit(d).second = sig
    BY <1>2, <1>3 DEF Parsed
<1>5. id \in Seq(Byte) /\ Len(id) = n /\ \A i \in 1..n : id[i] = d[2 + i]
  <2>1. PICK a : a = 2 + n
      OBVIOUS
  <2>2. a \in 0..Len(d) /\ 2 \in 0..a /\ a - 2 = n
      BY <1>2, <2>1
  <2>3. /\ id \in Seq(Byte) /\ Len(id) = a - 2
        /\ \A i \in 1..(a - 2) : id[i] = d[2 + i]
    <3>1. IsSlice(Slice(d, 2, a), Byte, d, 2, a)
        BY <2>2, SliceIs
    <3> QED
        BY <1>3, <2>1, <3>1 DEF IsSlice
  <2> QED
      BY <2>2, <2>3
<1>6. sig \in Seq(Byte) /\ Len(sig) = m /\ \A i \in 1..m : sig[i] = d[(4 + n) + i]
  <2>1. PICK a : a = 4 + n
      OBVIOUS
  <2>2. a \in 0..Len(d) /\ Len(d) - a = m
      BY <1>2, <2>1
  <2> QED
      BY <1>3, <2>1, <2>2, SuffixFact
<1>7. PICK y : y = MarshalInit(id, sig)
    OBVIOUS
<1>8. IsInit(y, id, sig)
    BY <1>5, <1>6, <1>7, BytesAreNats, MarshalInitFact
<1>9. U16(n) = <<d[1], d[2]>> /\ U16(m) = <<d[(2 + n) + 1], d[(2 + n) + 2]>>
  <2>1. PICK a : a = 2 + n
      OBVIOUS
  <2>2. 0 + 2 <= Len(d) /\ a \in Nat /\ a + 2 <= Len(d)
      BY <1>2, <2>1
  <2>3. U16(n) = <<d[0 + 1], d[0 + 2]>>
      BY <1>1, <2>2, U16AtFact
  <2>4. U16(m) = <<d[a + 1], d[a + 2]>>
      BY <1>1, <2>1, <2>2, U16AtFact
  <2> QED
      BY <2>1, <2>3, <2>4
<1>10. y \in Seq(Nat) /\ d \in Seq(Nat) /\ Len(y) = Len(d)
    BY <1>2, <1>5, <1>6, <1>8, BytesAreNats DEF IsInit
<1>11. \A i \in 1..Len(y) : y[i] = d[i]
  <2> SUFFICES ASSUME NEW i \in 1..Len(d) PROVE y[i] = d[i]
      BY <1>10
  <2>1. CASE i = 1 \/ i = 2
    <3>1. y[1] = U16(n)[1] /\ y[2] = U16(n)[2]
        BY <1>5, <1>8 DEF IsInit
    <3>2. U16(n)[1] = d[1] /\ U16(n)[2] = d[2]
        BY <1>9
    <3> QED
        BY <2>1, <3>1, <3>2
  <2>2. CASE i \in 3..(2 + n)
    <3>1. PICK j : j = i - 2
        OBVIOUS
    <3>2. j \in 1..n /\ i = 2 + j
        BY <1>2, <2>2, <3>1
    <3> QED
        BY <1>5, <1>8, <3>2 DEF IsInit
  <2>3. CASE i = 2 + n + 1
      BY <1>5, <1>6, <1>8, <1>9, <2>3 DEF IsInit
  <2>4. CASE i = 2 + n + 2
      BY <1>5, <1>6, <1>8, <1>9, <2>4 DEF IsInit
  <2>5. CASE i \in (5 + n)..(4 + n + m)
    <3>1. PICK j : j = i - (4 + n)
        OBVIOUS
    <3>2. j \in 1..m /\ i = (4 + n) + j
        BY <1>2, <2>5, <3>1
    <3> QED
        BY <1>5, <1>6, <1>8, <3>2 DEF IsInit
  <2>6. i = 1 \/ i = 2 \/ i \in 3..(2 + n) \/ i = 2 + n + 1 \/ i = 2 + n + 2
        \/ i \in (5 + n)..(4 + n + m)
      BY <1>2
  <2> QED
      BY <2>1, <2>2, <2>3, <2>4, <2>5, <2>6
<1>12. y = d
    BY <1>10, <1>11, SeqEqual
<1> QED
    BY <1>4, <1>7, <1>12

(***************************************************************************)
(* The response.                                                           *)
(***************************************************************************)
\* When a response is accepted, in numbers.
LEMMA ResponseAccepted ==
    ASSUME NEW d \in Seq(Byte), Accepted(parseHandshakeResponse(d))
    PROVE  /\ CiphertextSize + 2 <= Len(d)
           /\ U16At(d, CiphertextSize) \in Nat
           /\ Len(d) = (CiphertextSize + 2) + U16At(d, CiphertextSize)
           /\ parseHandshakeResponse(d) =
                Parsed(Slice(d, 0, CiphertextSize), Slice(d, CiphertextSize + 2, Len(d)))
<1>c. CiphertextSize \in Nat
    BY CodecAssumption
<1>1. PICK c, m : c = CiphertextSize /\ m = U16At(d, c)
    OBVIOUS
<1>2. decodeHandshakeResponse(d) =
        IF Len(d) < c + 2 THEN Fail("invalid")
        ELSE IF Len(d) < (c + 2) + m THEN Fail("short")
        ELSE IF Len(d) # (c + 2) + m THEN Fail("invalid")
        ELSE Parsed(Slice(d, 0, c), Slice(d, c + 2, (c + 2) + m))
    BY <1>1 DEF decodeHandshakeResponse
<1>3. parseHandshakeResponse(d) = decodeHandshakeResponse(d)
    BY ResponseParsersAgree
<1>4. Fail("short").err # "none" /\ Fail("invalid").err # "none"
    BY DEF Fail
<1>5. ~(Len(d) < c + 2) /\ Len(d) = (c + 2) + m
    BY <1>2, <1>3, <1>4 DEF Accepted
<1>6. c + 2 <= Len(d)
    BY <1>c, <1>1, <1>5
<1>7. m \in Nat
    BY <1>c, <1>1, <1>6, U16AtFact
<1>8. parseHandshakeResponse(d) = Parsed(Slice(d, 0, c), Slice(d, c + 2, (c + 2) + m))
  <2>1. ~(Len(d) < (c + 2) + m)
      BY <1>5
  <2> QED
      BY <1>2, <1>3, <1>5, <2>1
<1> QED
    BY <1>1, <1>5, <1>6, <1>7, <1>8

\* A marshalled response is parsed to the fields it was made of.
LEMMA ResponseDecodesEncoding ==
    ASSUME NEW ct \in Seq(Byte), NEW enc \in Seq(Byte), Len(ct) = CiphertextSize,
           MarshalResponse(ct, enc) \in Seq(Byte)
    PROVE  parseHandshakeResponse(MarshalResponse(ct, enc)) = Parsed(ct, enc)
<1>1. PICK y, c, m : y = MarshalResponse(ct, enc) /\ c = CiphertextSize /\ m = Len(enc)
    OBVIOUS
<1>2. y \in Seq(Byte) /\ ct \in Seq(Nat) /\ enc \in Seq(Nat) /\ m \in Nat /\ c \in Nat
    BY <1>1, BytesAreNats
<1>3. HasField(y, ct, enc)
    BY <1>1, <1>2, FieldFact DEF MarshalResponse
<1>4. /\ Len(y) = (c + 2) + m
      /\ U16At(y, c) = m
      /\ \A i \in 1..c : y[i] = ct[i]
      /\ \A i \in 1..m : y[(c + 2) + i] = enc[i]
    BY <1>1, <1>3 DEF HasField
<1>5. ~(Len(y) < c + 2) /\ ~(Len(y) < (c + 2) + m)
    BY <1>2, <1>4
<1>6. decodeHandshakeResponse(y) =
         Parsed(Slice(y, 0, c), Slice(y, c + 2, (c + 2) + m))
    BY <1>1, <1>4, <1>5 DEF decodeHandshakeResponse
<1>7. Slice(y, 0, c) = ct
  <2>1. c \in 0..Len(y) /\ 0 \in 0..c
      BY <1>2, <1>4
  <2>2. PICK z : z = Slice(y, 0, c)
      OBVIOUS
  <2>3. z \in Seq(Byte) /\ Len(z) = c - 0 /\ \A i \in 1..(c - 0) : z[i] = y[0 + i]
      BY <1>2, <2>1, <2>2, SliceFact
  <2>4. Len(z) = Len(ct) /\ \A i \in 1..Len(z) : z[i] = ct[i]
      BY <1>1, <1>2, <1>4, <2>3
  <2>5. z = ct
      BY <2>3, <2>4, SeqEqual
  <2> QED
      BY <2>2, <2>5
<1>8. Slice(y, c + 2, (c + 2) + m) = enc
  <2>1. PICK a, b : a = c + 2 /\ b = a + m
      OBVIOUS
  <2>2. b \in 0..Len(y) /\ a \in 0..b /\ b - a = m
      BY <1>2, <1>4, <2>1
  <2>3. PICK z : z = Slice(y, a, b)
      OBVIOUS
  <2>4. z \in Seq(Byte) /\ Len(z) = m /\ \A i \in 1..m : z[i] = y[a + i]
    <3>1. /\ z \in Seq(Byte) /\ Len(z) = b - a
          /\ \A i \in 1..(b - a) : z[i] = y[a + i]
      <4>1. IsSlice(z, Byte, y, a, b)
          BY <1>2, <2>2, <2>3, SliceIs
      <4> QED
          BY <4>1 DEF IsSlice
    <3> QED
        BY <2>2, <3>1
  <2>5. \A i \in 1..m : z[i] = enc[i]
      BY <1>4, <2>1, <2>4
  <2>6. z = enc
      BY <1>1, <2>4, <2>5, SeqEqual
  <2> QED
      BY <2>1, <2>3, <2>6
<1> QED
    BY <1>1, <1>2, <1>6, <1>7, <1>8, ResponseParsersAgree

\* A response that is accepted is the encoding of what was parsed.
LEMMA ResponseEncodesDecoded ==
    ASSUME NEW d \in Seq(Byte), Accepted(parseHandshakeResponse(d))
    PROVE  LET p == parseHandshakeResponse(d)
           IN  MarshalResponse(p.first, p.second) = d /\ Len(p.first) = CiphertextSize
<1>1. PICK c, m : c = CiphertextSize /\ m = U16At(d, c)
    OBVIOUS
<1>2. /\ c + 2 <= Len(d) /\ c \in Nat /\ m \in Nat /\ Len(d) = (c + 2) + m
      /\ parseHandshakeResponse(d) = Parsed(Slice(d, 0, c), Slice(d, c + 2, Len(d)))
    BY <1>1, CodecAssumption, ResponseAccepted
<1>3. PICK ct, enc : ct = Slice(d, 0, c) /\ enc = Slice(d, c + 2, Len(d))
    OBVIOUS
<1>4. /\ parseHandshakeResponse(d).first = ct
      /\ parseHandshakeResponse(d).second = enc
    BY <1>2, <1>3 DEF Parsed
<1>5. ct \in Seq(Byte) /\ Len(ct) = c /\ \A i \in 1..c : ct[i] = d[i]
  <2>1. c \in 0..Len(d) /\ 0 \in 0..c
      BY <1>2
  <2>2. ct \in Seq(Byte) /\ Len(ct) = c - 0 /\ \A i \in 1..(c - 0) : ct[i] = d[0 + i]
      BY <1>3, <2>1, SliceFact
  <2> QED
      BY <1>2, <2>2
<1>6. enc \in Seq(Byte) /\ Len(enc) = m /\ \A i \in 1..m : enc[i] = d[(c + 2) + i]
  <2>1. PICK a : a = c + 2
      OBVIOUS
  <2>2. a \in 0..Len(d) /\ Len(d) - a = m
      BY <1>2, <2>1
  <2> QED
      BY <1>3, <2>1, <2>2, SuffixFact
<1>7. PICK y : y = MarshalResponse(ct, enc)
    OBVIOUS
<1>8. HasField(y, ct, enc)
    BY <1>5, <1>6, <1>7, BytesAreNats, FieldFact DEF MarshalResponse
<1>9. U16(m) = <<d[c + 1], d[c + 2]>>
    BY <1>1, <1>2, U16AtFact
<1>10. y \in Seq(Nat) /\ d \in Seq(Nat) /\ Len(y) = Len(d)
    BY <1>2, <1>5, <1>6, <1>8, BytesAreNats DEF HasField
<1>11. \A i \in 1..Len(y) : y[i] = d[i]
  <2> SUFFICES ASSUME NEW i \in 1..Len(d) PROVE y[i] = d[i]
      BY <1>10
  <2>1. CASE i \in 1..c
      BY <1>5, <1>8, <2>1 DEF HasField
  <2>2. CASE i = c + 1
      BY <1>5, <1>6, <1>8, <1>9, <2>2 DEF HasField
  <2>3. CASE i = c + 2
      BY <1>5, <1>6, <1>8, <1>9, <2>3 DEF HasField
  <2>4. CASE i \in (c + 3)..(c + 2 + m)
    <3>1. PICK j : j = i - (c + 2)
        OBVIOUS
    <3>2. j \in 1..m /\ i = (c + 2) + j
        BY <1>2, <2>4, <3>1
    <3> QED
        BY <1>5, <1>6, <1>8, <3>2 DEF HasField
  <2>5. i \in 1..c \/ i = c + 1 \/ i = c + 2 \/ i \in (c + 3)..(c + 2 + m)
      BY <1>2
  <2> QED
      BY <2>1, <2>2, <2>3, <2>4, <2>5
<1>12. y = d
    BY <1>10, <1>11, SeqEqual
<1> QED
    BY <1>1, <1>4, <1>5, <1>7, <1>12

(***************************************************************************)
(* No accepted frame is a proper prefix of another.                        *)
(***************************************************************************)
LEMMA CutFact ==
    ASSUME NEW d \in Seq(Byte), NEW n \in 0..Len(d)
    PROVE  /\ SubSeq(d, 1, n) \in Seq(Byte)
           /\ Len(SubSeq(d, 1, n)) = n
           /\ \A a \in Nat : a + 2 <= n => U16At(SubSeq(d, 1, n), a) = U16At(d, a)
<1>1. PICK t : t = SubSeq(d, 1, n)
    OBVIOUS
<1>2. t \in Seq(Byte) /\ Len(t) = n /\ \A i \in 1..n : t[i] = d[i]
  <2>1. 0 \in 0..n /\ 0 + 1 = 1
      OBVIOUS
  <2>2. t = Slice(d, 0, n)
      BY <1>1, <2>1 DEF Slice
  <2>3. t \in Seq(Byte) /\ Len(t) = n - 0 /\ \A i \in 1..(n - 0) : t[i] = d[0 + i]
      BY <2>1, <2>2, SliceFact
  <2> QED
      BY <2>3
<1>3. ASSUME NEW a \in Nat, a + 2 <= n PROVE U16At(t, a) = U16At(d, a)
  <2>1. a + 1 \in 1..n /\ a + 2 \in 1..n
      BY <1>3
  <2> QED
      BY <1>2, <2>1 DEF U16At
<1> QED
    BY <1>1, <1>2, <1>3

\* No accepted init is cut short into another.
LEMMA InitPrefixFree ==
    ASSUME NEW d \in Seq(Byte), NEW n \in 0..(Len(d) - 1),
           Accepted(parseHandshakeInit(d)),
           Accepted(parseHandshakeInit(SubSeq(d, 1, n)))
    PROVE  FALSE
<1>1. PICK t : t = SubSeq(d, 1, n)
    OBVIOUS
<1>2. /\ t \in Seq(Byte) /\ Len(t) = n
      /\ \A a \in Nat : a + 2 <= n => U16At(t, a) = U16At(d, a)
  <2>1. n \in 0..Len(d)
      OBVIOUS
  <2> QED
      BY <1>1, <2>1, CutFact
<1>3. PICK k, m : k = U16At(t, 0) /\ m = U16At(t, 2 + k)
    OBVIOUS
<1>4. 2 <= n /\ k \in Nat /\ 4 + k <= n /\ m \in Nat /\ n = 4 + k + m
    BY <1>1, <1>2, <1>3, InitAccepted
<1>5. PICK a : a = 2 + k
    OBVIOUS
<1>6. 0 + 2 <= n /\ a \in Nat /\ a + 2 <= n
    BY <1>4, <1>5
<1>7. U16At(d, 0) = k /\ U16At(d, a) = m
    BY <1>2, <1>3, <1>5, <1>6
<1>8. Len(d) = 4 + k + m
    BY <1>5, <1>7, InitAccepted
<1> QED
    BY <1>4, <1>8

\* No accepted response is cut short into another.
LEMMA ResponsePrefixFree ==
    ASSUME NEW d \in Seq(Byte), NEW n \in 0..(Len(d) - 1),
           Accepted(parseHandshakeResponse(d)),
           Accepted(parseHandshakeResponse(SubSeq(d, 1, n)))
    PROVE  FALSE
<1>1. PICK t, c : t = SubSeq(d, 1, n) /\ c = CiphertextSize
    OBVIOUS
<1>2. /\ t \in Seq(Byte) /\ Len(t) = n
      /\ \A a \in Nat : a + 2 <= n => U16At(t, a) = U16At(d, a)
  <2>1. n \in 0..Len(d)
      OBVIOUS
  <2> QED
      BY <1>1, <2>1, CutFact
<1>3. c \in Nat /\ c + 2 <= n /\ U16At(t, c) \in Nat /\ n = (c + 2) + U16At(t, c)
    BY <1>1, <1>2, CodecAssumption, ResponseAccepted
<1>4. U16At(d, c) = U16At(t, c)
    BY <1>2, <1>3
<1>5. Len(d) = (c + 2) + U16At(d, c)
    BY <1>1, ResponseAccepted
<1> QED
    BY <1>3, <1>4, <1>5

\* Where two concatenations are equal and the first parts are of one length.
LEMMA Cancel ==
    ASSUME NEW x \in Seq(Nat), NEW s \in Seq(Nat), NEW y \in Seq(Nat), NEW t \in Seq(Nat),
           x \o s = y \o t, Len(x) = Len(y)
    PROVE  x = y /\ s = t
<1>1. PICK z, n : z = x \o s /\ n = Len(x)
    OBVIOUS
<1>2. IsConcat(z, x, s) /\ IsConcat(z, y, t) /\ n \in Nat
  <2>1. IsConcat(x \o s, x, s)
      BY ConcatFact
  <2>2. IsConcat(y \o t, y, t)
      BY ConcatFact
  <2>3. z = y \o t /\ n \in Nat
      BY <1>1
  <2> QED
      BY <1>1, <2>1, <2>2, <2>3
<1>3. Len(s) = Len(t)
    BY <1>1, <1>2 DEF IsConcat
<1>4. \A i \in 1..Len(x) : x[i] = y[i]
  <2> SUFFICES ASSUME NEW i \in 1..n PROVE x[i] = y[i]
      BY <1>1
  <2>1. i <= n /\ i \in 1..(n + Len(s))
      BY <1>2
  <2> QED
      BY <1>1, <1>2, <1>3, <2>1 DEF IsConcat
<1>5. \A i \in 1..Len(s) : s[i] = t[i]
  <2> SUFFICES ASSUME NEW i \in 1..Len(s) PROVE s[i] = t[i]
      OBVIOUS
  <2>1. PICK j : j = n + i
      OBVIOUS
  <2>2. ~(j <= n) /\ j \in 1..(n + Len(s)) /\ j - n = i
      BY <1>2, <2>1
  <2> QED
      BY <1>1, <1>2, <1>3, <2>2 DEF IsConcat
<1>6. x = y
    BY <1>4, SeqEqual
<1> QED
    BY <1>3, <1>5, <1>6, SeqEqual

(***************************************************************************)
(* The public identity.                                                    *)
(***************************************************************************)
LEMMA SliceConcat ==
    ASSUME NEW s \in Seq(Byte), NEW c \in 0..Len(s), NEW b \in 0..c, NEW a \in 0..b
    PROVE  Slice(s, a, b) \o Slice(s, b, c) = Slice(s, a, c)
<1>1. PICK m : m = a + 1
    OBVIOUS
<1>2. /\ m \in 1..(Len(s) + 1)
      /\ b \in (m - 1)..Len(s)
      /\ c \in b..Len(s)
    BY <1>1
<1>3. SubSeq(s, m, b) \o SubSeq(s, b + 1, c) = SubSeq(s, m, c)
    BY <1>2, ConcatAdjacentSubSeq
<1> QED
    BY <1>1, <1>3 DEF Slice

\* An identity cut in four at the offsets of ParseIdentityPublic.
Cut(d) ==
    LET a == KeySizes.ed + KeySizes.dsa
        b == a + KeySizes.mlkem
    IN  [err |-> "none", ed |-> Slice(d, 0, KeySizes.ed),
         dsa |-> Slice(d, KeySizes.ed, a), mlkem |-> Slice(d, a, b),
         x25519 |-> Slice(d, b, Len(d))]

HasSizes(pub) == \A k \in DOMAIN KeySizes : pub[k] \in Seq(Byte)
                                            /\ Len(pub[k]) = KeySizes[k]

\* The parts of an identity of the right size have the sizes of keys and make it
\* up again, and they are what ParseIdentityPublic returns if the libraries
\* accept the two of them that can be refused.
LEMMA IdentityParts ==
    ASSUME NEW d \in Seq(Byte), Len(d) = IdentityPublicSize
    PROVE  /\ MarshalIdentity(Cut(d)) = d
           /\ HasSizes(Cut(d))
           /\ IF Cut(d).dsa \in DSAKeys /\ Cut(d).mlkem \in MLKEMKeys
              THEN ParseIdentityPublic(d) = Cut(d)
              ELSE ~Accepted(ParseIdentityPublic(d))
<1>1. PICK e, a, b : /\ e = KeySizes.ed
                     /\ a = KeySizes.ed + KeySizes.dsa
                     /\ b = a + KeySizes.mlkem
    OBVIOUS
<1>2. /\ KeySizes.ed \in Nat /\ KeySizes.dsa \in Nat
      /\ KeySizes.mlkem \in Nat /\ KeySizes.x25519 \in Nat
      /\ DOMAIN KeySizes = {"ed", "dsa", "mlkem", "x25519"}
    BY CodecAssumption
<1>3. /\ e \in 0..a /\ a \in 0..b /\ b \in 0..Len(d) /\ a \in 0..Len(d)
      /\ e \in 0..Len(d)
      /\ Len(d) - b = KeySizes.x25519 /\ Len(d) = b + KeySizes.x25519
      /\ b - a = KeySizes.mlkem /\ a - e = KeySizes.dsa
      /\ Len(d) - a = XWingPublicKeySize
  <2>1. PICK f, g, h : f = KeySizes.dsa /\ g = KeySizes.mlkem /\ h = KeySizes.x25519
      OBVIOUS
  <2>2. e \in Nat /\ f \in Nat /\ g \in Nat /\ h \in Nat
      BY <1>1, <1>2, <2>1
  <2>3. a = e + f /\ b = a + g /\ XWingPublicKeySize = g + h /\ Len(d) = e + f + (g + h)
      BY <1>1, <2>1 DEF IdentityPublicSize, XWingPublicKeySize
  <2>4. /\ e \in 0..a /\ a \in 0..b /\ b \in 0..Len(d) /\ a \in 0..Len(d)
        /\ e \in 0..Len(d)
        /\ Len(d) - b = h /\ Len(d) = b + h
        /\ b - a = g /\ a - e = f
        /\ Len(d) - a = g + h
      BY <2>2, <2>3
  <2> QED
      BY <2>1, <2>3, <2>4
<1>4. PICK t, x : t = Slice(d, a, Len(d)) /\ x = ParseXWingPublicKey(t)
    OBVIOUS
<1>5. Len(t) = Len(d) - a
    BY <1>3, <1>4, SuffixFact
<1>6. x = IF Slice(t, 0, KeySizes.mlkem) \notin MLKEMKeys THEN BadKey
          ELSE [err |-> "none", mlkem |-> Slice(t, 0, KeySizes.mlkem),
                x25519 |-> Slice(t, KeySizes.mlkem, Len(t))]
    BY <1>3, <1>4, <1>5 DEF ParseXWingPublicKey
<1>7. Slice(t, 0, KeySizes.mlkem) = Slice(d, a, b)
  <2>1. PICK k : k = KeySizes.mlkem
      OBVIOUS
  <2>2. k \in Nat /\ b - a = k
      BY <1>2, <1>3, <2>1
  <2>3. k \in 0..(Len(d) - a) /\ 0 \in 0..k /\ a + k = b /\ a + 0 = a
      BY <1>3, <2>2
  <2>4. Slice(Slice(d, a, Len(d)), 0, k) = Slice(d, a + 0, a + k)
      BY <1>3, <2>3, SliceOfSlice
  <2> QED
      BY <1>4, <2>1, <2>3, <2>4
<1>8. Slice(t, KeySizes.mlkem, Len(t)) = Slice(d, b, Len(d))
  <2>1. PICK k, n : k = KeySizes.mlkem /\ n = Len(t)
      OBVIOUS
  <2>2. k \in Nat /\ b - a = k /\ n = Len(d) - a
      BY <1>2, <1>3, <1>5, <2>1
  <2>3. n \in 0..(Len(d) - a) /\ k \in 0..n /\ a + k = b /\ a + n = Len(d)
    <3>1. PICK l : l = Len(d)
        OBVIOUS
    <3>2. l \in Nat /\ a \in 0..b /\ b \in 0..l /\ n = l - a
        BY <1>3, <2>2, <3>1
    <3>3. n \in 0..(l - a) /\ k \in 0..n /\ a + k = b /\ a + n = l
        BY <2>2, <3>2
    <3> QED
        BY <3>1, <3>3
  <2>4. Slice(Slice(d, a, Len(d)), k, n) = Slice(d, a + k, a + n)
      BY <1>3, <2>3, SliceOfSlice
  <2> QED
      BY <1>4, <2>1, <2>3, <2>4
<1>9. PICK pub : pub = Cut(d)
    OBVIOUS
<1>10. pub = [err |-> "none", ed |-> Slice(d, 0, e), dsa |-> Slice(d, e, a),
              mlkem |-> Slice(d, a, b), x25519 |-> Slice(d, b, Len(d))]
    BY <1>1, <1>9 DEF Cut
<1>11. MarshalIdentity(pub) = d
  <2>1. PICK n : n = Len(d)
      OBVIOUS
  <2>2. n \in 0..Len(d) /\ b \in 0..n /\ a \in 0..n /\ 0 \in 0..a /\ 0 \in 0..e
      BY <1>3, <2>1
  <2>3. Slice(d, a, b) \o Slice(d, b, n) = Slice(d, a, n)
      BY <1>3, <2>2, SliceConcat
  <2>4. Slice(d, 0, e) \o Slice(d, e, a) = Slice(d, 0, a)
      BY <1>3, <2>2, SliceConcat
  <2>5. Slice(d, 0, a) \o Slice(d, a, n) = Slice(d, 0, n)
      BY <1>3, <2>2, SliceConcat
  <2>6. Slice(d, 0, n) = d
      BY <2>1, SliceAll
  <2> QED
      BY <1>10, <2>1, <2>3, <2>4, <2>5, <2>6 DEF MarshalIdentity, MarshalXWing
<1>12. HasSizes(pub)
  <2>1. Slice(d, 0, e) \in Seq(Byte) /\ Len(Slice(d, 0, e)) = KeySizes.ed
    <3>1. 0 \in 0..e /\ e - 0 = KeySizes.ed
        BY <1>1, <1>2
    <3> QED
        BY <1>3, <3>1, SliceFact
  <2>2. Slice(d, e, a) \in Seq(Byte) /\ Len(Slice(d, e, a)) = KeySizes.dsa
      BY <1>3, SliceFact
  <2>3. Slice(d, a, b) \in Seq(Byte) /\ Len(Slice(d, a, b)) = KeySizes.mlkem
      BY <1>3, SliceFact
  <2>4. /\ Slice(d, b, Len(d)) \in Seq(Byte)
        /\ Len(Slice(d, b, Len(d))) = KeySizes.x25519
      BY <1>3, SuffixFact
  <2> QED
      BY <1>2, <1>10, <2>1, <2>2, <2>3, <2>4 DEF HasSizes
<1>13. IF pub.dsa \in DSAKeys /\ pub.mlkem \in MLKEMKeys
       THEN ParseIdentityPublic(d) = pub
       ELSE ~Accepted(ParseIdentityPublic(d))
  <2>1. PICK u, v, w, y : /\ u = Slice(d, 0, e) /\ v = Slice(d, e, a)
                          /\ w = Slice(d, a, b) /\ y = Slice(d, b, Len(d))
      OBVIOUS
  <2>2. x = IF w \notin MLKEMKeys THEN BadKey
            ELSE [err |-> "none", mlkem |-> w, x25519 |-> y]
      BY <1>6, <1>7, <1>8, <2>1
  <2>3. ParseIdentityPublic(d)
            = IF v \notin DSAKeys THEN BadKey
              ELSE IF x.err # "none" THEN x
              ELSE [err |-> "none", ed |-> u, dsa |-> v, mlkem |-> x.mlkem,
                    x25519 |-> x.x25519]
      BY <1>1, <1>4, <2>1 DEF ParseIdentityPublic
  <2>4. pub = [err |-> "none", ed |-> u, dsa |-> v, mlkem |-> w, x25519 |-> y]
      BY <1>10, <2>1
  <2> QED
      BY <2>2, <2>3, <2>4 DEF Accepted, BadKey
<1> QED
    BY <1>9, <1>11, <1>12, <1>13

\* An identity is made up of one choice of keys of their sizes.
LEMMA IdentityInjective ==
    ASSUME NEW p, NEW q, HasSizes(p), HasSizes(q),
           MarshalIdentity(p) = MarshalIdentity(q)
    PROVE  p.dsa = q.dsa /\ p.mlkem = q.mlkem
<1>1. DOMAIN KeySizes = {"ed", "dsa", "mlkem", "x25519"}
    BY CodecAssumption
<1>2. /\ p.ed \in Seq(Nat) /\ p.dsa \in Seq(Nat)
      /\ p.mlkem \in Seq(Nat) /\ p.x25519 \in Seq(Nat)
      /\ q.ed \in Seq(Nat) /\ q.dsa \in Seq(Nat)
      /\ q.mlkem \in Seq(Nat) /\ q.x25519 \in Seq(Nat)
    BY <1>1, BytesAreNats DEF HasSizes
<1>3. Len(p.ed) = Len(q.ed) /\ Len(p.dsa) = Len(q.dsa) /\ Len(p.mlkem) = Len(q.mlkem)
    BY <1>1 DEF HasSizes
<1>4. PICK f, g, h, k : /\ f = p.ed \o p.dsa /\ g = q.ed \o q.dsa
                        /\ h = p.mlkem \o p.x25519 /\ k = q.mlkem \o q.x25519
    OBVIOUS
<1>5. IsConcat(f, p.ed, p.dsa) /\ IsConcat(g, q.ed, q.dsa)
    BY <1>2, <1>4, ConcatFact
<1>6. IsConcat(h, p.mlkem, p.x25519) /\ IsConcat(k, q.mlkem, q.x25519)
    BY <1>2, <1>4, ConcatFact
<1>7. /\ f \in Seq(Nat) /\ g \in Seq(Nat) /\ h \in Seq(Nat) /\ k \in Seq(Nat)
      /\ Len(f) = Len(g)
    BY <1>3, <1>5, <1>6 DEF IsConcat
<1>8. f \o h = g \o k
    BY <1>4 DEF MarshalIdentity, MarshalXWing
<1>9. f = g /\ h = k
    BY <1>7, <1>8, Cancel
<1>10. p.dsa = q.dsa
  <2>1. PICK x, s, y, t : x = p.ed /\ s = p.dsa /\ y = q.ed /\ t = q.dsa
      OBVIOUS
  <2>2. /\ x \in Seq(Nat) /\ s \in Seq(Nat) /\ y \in Seq(Nat) /\ t \in Seq(Nat)
        /\ x \o s = y \o t /\ Len(x) = Len(y)
      BY <1>2, <1>3, <1>4, <1>9, <2>1
  <2>3. s = t
      BY <2>2, Cancel
  <2> QED
      BY <2>1, <2>3
<1>11. p.mlkem = q.mlkem
  <2>1. PICK x, s, y, t :
            x = p.mlkem /\ s = p.x25519 /\ y = q.mlkem /\ t = q.x25519
      OBVIOUS
  <2>2. /\ x \in Seq(Nat) /\ s \in Seq(Nat) /\ y \in Seq(Nat) /\ t \in Seq(Nat)
        /\ x \o s = y \o t /\ Len(x) = Len(y)
      BY <1>2, <1>3, <1>4, <1>9, <2>1
  <2>3. x = y
      BY <2>2, Cancel
  <2> QED
      BY <2>1, <2>3
<1> QED
    BY <1>10, <1>11

\* What keys of their sizes make up has the size of an identity.
LEMMA IdentitySize ==
    ASSUME NEW p, HasSizes(p)
    PROVE  Len(MarshalIdentity(p)) = IdentityPublicSize
<1>1. DOMAIN KeySizes = {"ed", "dsa", "mlkem", "x25519"}
    BY CodecAssumption
<1>2. /\ p.ed \in Seq(Nat) /\ p.dsa \in Seq(Nat)
      /\ p.mlkem \in Seq(Nat) /\ p.x25519 \in Seq(Nat)
    BY <1>1, BytesAreNats DEF HasSizes
<1>3. PICK f, h : f = p.ed \o p.dsa /\ h = p.mlkem \o p.x25519
    OBVIOUS
<1>4. IsConcat(f, p.ed, p.dsa) /\ IsConcat(h, p.mlkem, p.x25519)
    BY <1>2, <1>3, ConcatFact
<1>5. f \in Seq(Nat) /\ h \in Seq(Nat)
    BY <1>4 DEF IsConcat
<1>6. Len(f \o h) = Len(f) + Len(h)
    BY <1>5, ConcatFact DEF IsConcat
<1>7. Len(f) = KeySizes.ed + KeySizes.dsa /\ Len(h) = XWingPublicKeySize
    BY <1>1, <1>4 DEF IsConcat, HasSizes, XWingPublicKeySize
<1>8. MarshalIdentity(p) = f \o h
    BY <1>3 DEF MarshalIdentity, MarshalXWing
<1> QED
    BY <1>6, <1>7, <1>8 DEF IdentityPublicSize

(***************************************************************************)
(* What is hashed.                                                         *)
(***************************************************************************)
\* A number below the base is its own last digit.
LEMMA SmallDigit ==
    ASSUME NEW B \in Nat \ {0}, NEW n \in Nat, n < B
    PROVE  n % B = n
OBVIOUS

\* identityDigest writes the length of its context in one byte: nothing else
\* is hashed as this context and this message are.
LEMMA DigestInjective ==
    ASSUME NEW c \in Labels, NEW m \in Seq(Byte),
           NEW e \in Labels, NEW k \in Seq(Byte),
           identityDigest(c, m) = identityDigest(e, k)
    PROVE  c = e /\ m = k
<1>1. /\ c \in Seq(Nat) /\ e \in Seq(Nat) /\ m \in Seq(Nat) /\ k \in Seq(Nat)
      /\ Len(c) < Base /\ Len(e) < Base
    BY CodecAssumption, BytesAreNats
<1>2. Len(c) % Base = Len(c) /\ Len(e) % Base = Len(e)
  <2>1. Base \in Nat \ {0} /\ Len(c) \in Nat /\ Len(e) \in Nat
      BY <1>1, BaseFact
  <2> QED
      BY <1>1, <2>1, SmallDigit
<1>3. PICK x, y : x = <<Len(c)>> \o c /\ y = <<Len(e)>> \o e
    OBVIOUS
<1>4. x \o m = y \o k
    BY <1>2, <1>3 DEF identityDigest
<1>5. PICK u, v : u = <<Len(c)>> /\ v = <<Len(e)>>
    OBVIOUS
<1>6. u \in Seq(Nat) /\ v \in Seq(Nat) /\ Len(u) = 1 /\ Len(v) = 1
      /\ u[1] = Len(c) /\ v[1] = Len(e)
    BY <1>1, <1>5
<1>7. IsConcat(x, u, c) /\ IsConcat(y, v, e)
    BY <1>1, <1>3, <1>5, <1>6, ConcatFact
<1>8. /\ x \in Seq(Nat) /\ Len(x) = 1 + Len(c) /\ x[1] = Len(c)
      /\ y \in Seq(Nat) /\ Len(y) = 1 + Len(e) /\ y[1] = Len(e)
    BY <1>1, <1>6, <1>7 DEF IsConcat
<1>9. x[1] = y[1]
  <2>1. PICK z : z = x \o m
      OBVIOUS
  <2>2. IsConcat(z, x, m) /\ IsConcat(z, y, k)
      BY <1>1, <1>4, <1>8, <2>1, ConcatFact
  <2>3. /\ 1 \in 1..(Len(x) + Len(m)) /\ 1 <= Len(x)
        /\ 1 \in 1..(Len(y) + Len(k)) /\ 1 <= Len(y)
    <3>1. Len(c) \in Nat /\ Len(e) \in Nat /\ Len(m) \in Nat /\ Len(k) \in Nat
        BY <1>1
    <3> QED
        BY <1>8, <3>1
  <2>4. z[1] = x[1] /\ z[1] = y[1]
      BY <2>2, <2>3 DEF IsConcat
  <2> QED
      BY <2>4
<1>10. x = y /\ m = k
    BY <1>1, <1>4, <1>8, <1>9, Cancel
<1>11. u \o c = v \o e
    BY <1>3, <1>5, <1>10
<1>12. c = e
    BY <1>1, <1>6, <1>11, Cancel
<1> QED
    BY <1>10, <1>12

\* A number is determined by n >> 8 and its last byte.
LEMMA ShiftFact ==
    ASSUME NEW n \in Nat, NEW m \in Nat
    PROVE  /\ Shift(n) \in Nat
           /\ Shift(n) = Shift(m) /\ n % Base = m % Base => n = m
<1>1. Base \in Nat \ {0}
    BY BaseFact
<1>2. /\ Shift(n) \in Nat /\ n = Shift(n) * Base + (n % Base)
      /\ m = Shift(m) * Base + (m % Base)
    BY <1>1, Digits DEF Shift
<1>3. ASSUME Shift(n) = Shift(m), n % Base = m % Base
      PROVE  n = m
    BY <1>2, <1>3
<1> QED
    BY <1>2, <1>3

\* n >> 8 is a byte shorter.
LEMMA ShiftBound ==
    ASSUME NEW n \in Nat, NEW k \in Nat, n < k * Base
    PROVE  Shift(n) < k
<1>1. PICK q, b, r : q = Shift(n) /\ b = Base /\ r = n % Base
    OBVIOUS
<1>2. q \in Nat /\ b \in Nat /\ r \in Nat /\ n = q * b + r
  <2>1. Base \in Nat \ {0}
      BY BaseFact
  <2>2. /\ n \div Base \in Nat
        /\ n % Base \in 0..(Base - 1)
        /\ n = (n \div Base) * Base + (n % Base)
      BY <2>1, Digits
  <2> QED
      BY <1>1, <2>1, <2>2 DEF Shift
<1>3. CASE k <= q
  <2>1. PICK j : j = q - k
      OBVIOUS
  <2>2. j \in Nat /\ q = k + j
      BY <1>2, <1>3, <2>1
  <2>3. q * b = k * b + j * b
      BY <1>2, <2>2
  <2>4. j * b \in Nat /\ k * b \in Nat
      BY <1>2, <2>2
  <2>5. n < k * b
      BY <1>1
  <2> QED
      BY <1>2, <2>3, <2>4, <2>5
<1> QED
    BY <1>1, <1>2, <1>3

\* A 32-bit length takes four bytes.
LEMMA U32Fact ==
    ASSUME NEW n \in Nat
    PROVE  /\ U32(n) \in Seq(Nat)
           /\ Len(U32(n)) = 4
<1>1. Base \in Nat \ {0}
    BY BaseFact
<1>2. \A k \in Nat : Shift(k) \in Nat /\ k % Base \in Nat
    BY <1>1, Digits DEF Shift
<1>3. /\ Shift(Shift(Shift(n))) % Base \in Nat /\ Shift(Shift(n)) % Base \in Nat
      /\ Shift(n) % Base \in Nat /\ n % Base \in Nat
    BY <1>2
<1> QED
    BY <1>3 DEF U32

\* Four bytes tell the lengths below 2^32 apart.
LEMMA U32Injective ==
    ASSUME NEW n \in Nat, NEW m \in Nat, U32(n) = U32(m),
           n < Base * Base * Base * Base, m < Base * Base * Base * Base
    PROVE  n = m
<1>1. PICK n1, n2, n3 : n1 = Shift(n) /\ n2 = Shift(n1) /\ n3 = Shift(n2)
    OBVIOUS
<1>2. PICK m1, m2, m3 : m1 = Shift(m) /\ m2 = Shift(m1) /\ m3 = Shift(m2)
    OBVIOUS
<1>3. /\ n1 \in Nat /\ n2 \in Nat /\ n3 \in Nat
      /\ m1 \in Nat /\ m2 \in Nat /\ m3 \in Nat
  <2>1. \A k \in Nat : Shift(k) \in Nat
      BY ShiftFact
  <2> QED
      BY <1>1, <1>2, <2>1
<1>4. /\ n3 % Base = m3 % Base /\ n2 % Base = m2 % Base
      /\ n1 % Base = m1 % Base /\ n % Base = m % Base
    BY <1>1, <1>2 DEF U32
<1>5. n3 < Base /\ m3 < Base
  <2>1. PICK b2, b3 : b2 = Base * Base /\ b3 = b2 * Base
      OBVIOUS
  <2>2. Base \in Nat /\ b2 \in Nat /\ b3 \in Nat
      BY <2>1, BaseFact
  <2>3. n < b3 * Base /\ m < b3 * Base
      BY <2>1
  <2>4. n1 < b3 /\ m1 < b3
      BY <1>1, <1>2, <2>2, <2>3, ShiftBound
  <2>5. n2 < b2 /\ m2 < b2
      BY <1>1, <1>2, <1>3, <2>1, <2>2, <2>4, ShiftBound
  <2> QED
      BY <1>1, <1>2, <1>3, <2>1, <2>2, <2>5, ShiftBound
<1>6. n3 = m3
  <2>1. Base \in Nat \ {0}
      BY BaseFact
  <2> QED
      BY <1>3, <1>4, <1>5, <2>1, SmallDigit
<1>7. n2 = m2
    BY <1>1, <1>2, <1>3, <1>4, <1>6, ShiftFact
<1>8. n1 = m1
    BY <1>1, <1>2, <1>3, <1>4, <1>7, ShiftFact
<1> QED
    BY <1>1, <1>2, <1>4, <1>8, ShiftFact

\* transcriptHash writes the length of the public key before it: nothing else
\* is hashed as this key and this ciphertext are.
LEMMA TranscriptInjective ==
    ASSUME NEW p \in Seq(Byte), NEW c \in Seq(Byte),
           NEW q \in Seq(Byte), NEW e \in Seq(Byte),
           transcript(p, c) = transcript(q, e),
           Len(p) < Base * Base * Base * Base, Len(q) < Base * Base * Base * Base
    PROVE  p = q /\ c = e
<1>1. p \in Seq(Nat) /\ c \in Seq(Nat) /\ q \in Seq(Nat) /\ e \in Seq(Nat)
    BY BytesAreNats
<1>2. PICK u, v, f, g : /\ u = U32(Len(p)) /\ v = U32(Len(q))
                        /\ f = U32(Len(c)) /\ g = U32(Len(e))
    OBVIOUS
<1>3. /\ u \in Seq(Nat) /\ v \in Seq(Nat) /\ f \in Seq(Nat) /\ g \in Seq(Nat)
      /\ Len(u) = 4 /\ Len(v) = 4 /\ Len(f) = 4 /\ Len(g) = 4
  <2>1. Len(p) \in Nat /\ Len(q) \in Nat /\ Len(c) \in Nat /\ Len(e) \in Nat
      OBVIOUS
  <2> QED
      BY <1>2, <2>1, U32Fact
<1>4. PICK x, y, s, t : x = u \o p /\ y = v \o q /\ s = x \o f /\ t = y \o g
    OBVIOUS
<1>5. s \o c = t \o e
    BY <1>2, <1>4 DEF transcript
<1>6. IsConcat(x, u, p) /\ IsConcat(y, v, q)
    BY <1>1, <1>3, <1>4, ConcatFact
<1>7. x \in Seq(Nat) /\ Len(x) = 4 + Len(p) /\ y \in Seq(Nat) /\ Len(y) = 4 + Len(q)
    BY <1>3, <1>6 DEF IsConcat
<1>8. IsConcat(s, x, f) /\ IsConcat(t, y, g)
    BY <1>3, <1>4, <1>7, ConcatFact
<1>9. s \in Seq(Nat) /\ Len(s) = 8 + Len(p) /\ t \in Seq(Nat) /\ Len(t) = 8 + Len(q)
    BY <1>1, <1>3, <1>7, <1>8 DEF IsConcat
<1>10. u = v
  <2>1. PICK z : z = s \o c
      OBVIOUS
  <2>2. IsConcat(z, s, c)
      BY <1>1, <1>9, <2>1, ConcatFact
  <2>3. IsConcat(z, t, e)
      BY <1>1, <1>5, <1>9, <2>1, ConcatFact
  <2>4. ASSUME NEW i \in 1..4 PROVE u[i] = v[i]
    <3>1. /\ i \in 1..(Len(s) + Len(c)) /\ i <= Len(s)
          /\ i \in 1..(Len(t) + Len(e)) /\ i <= Len(t)
          /\ i \in 1..(Len(x) + Len(f)) /\ i <= Len(x)
          /\ i \in 1..(Len(y) + Len(g)) /\ i <= Len(y)
          /\ i \in 1..(Len(u) + Len(p)) /\ i <= Len(u)
          /\ i \in 1..(Len(v) + Len(q)) /\ i <= Len(v)
      <4>1. /\ Len(p) \in Nat /\ Len(q) \in Nat /\ Len(c) \in Nat /\ Len(e) \in Nat
          OBVIOUS
      <4>2. i <= Len(s) /\ i <= Len(t) /\ i <= Len(x) /\ i <= Len(y)
        <5>1. i <= Len(x) /\ i <= Len(y)
            BY <1>7, <4>1
        <5>2. i <= Len(s) /\ i <= Len(t)
            BY <1>9, <4>1
        <5> QED
            BY <5>1, <5>2
      <4>3. i \in 1..(Len(s) + Len(c)) /\ i \in 1..(Len(t) + Len(e))
        <5>1. Len(s) \in Nat /\ Len(t) \in Nat
            BY <1>9
        <5> QED
            BY <4>1, <4>2, <5>1
      <4>4. i \in 1..(Len(x) + Len(f)) /\ i \in 1..(Len(y) + Len(g))
          BY <1>3, <1>7, <4>1
      <4>5. /\ i \in 1..(Len(u) + Len(p)) /\ i <= Len(u)
            /\ i \in 1..(Len(v) + Len(q)) /\ i <= Len(v)
          BY <1>3, <4>1
      <4> QED
          BY <4>2, <4>3, <4>4, <4>5
    <3>2. z[i] = s[i] /\ s[i] = x[i] /\ x[i] = u[i]
        BY <1>6, <1>8, <2>2, <3>1 DEF IsConcat
    <3>3. z[i] = t[i] /\ t[i] = y[i] /\ y[i] = v[i]
        BY <1>6, <1>8, <2>3, <3>1 DEF IsConcat
    <3> QED
        BY <3>2, <3>3
  <2> QED
      BY <1>3, <2>4, SeqEqual
<1>11. Len(p) = Len(q)
  <2>1. Len(p) \in Nat /\ Len(q) \in Nat
      OBVIOUS
  <2> QED
      BY <1>2, <1>10, <2>1, U32Injective
<1>12. s = t /\ c = e
  <2>1. Len(s) = Len(t)
      BY <1>9, <1>11
  <2> QED
      BY <1>1, <1>5, <1>9, <2>1, Cancel
<1>13. x = y
  <2>1. x \o f = y \o g /\ Len(x) = Len(y)
      BY <1>4, <1>7, <1>11, <1>12
  <2> QED
      BY <1>3, <1>7, <2>1, Cancel
<1>14. p = q
  <2>1. u \o p = v \o q /\ Len(u) = Len(v)
      BY <1>3, <1>4, <1>13
  <2> QED
      BY <1>1, <1>3, <2>1, Cancel
<1> QED
    BY <1>12, <1>14

-----------------------------------------------------------------------------
\* Whatever arrives is a sequence of bytes, no longer than a frame.
Frames == data \in Seq(Byte) /\ Len(data) <= MaxLen

\* What was received is bytes, no more than the limit.
LEMMA FramesInvariant == Spec => []Frames
<1>1. Init => Frames
    BY CodecAssumption DEF Init, Frames
<1>2. Frames /\ [Next]_data => Frames'
  <2> SUFFICES ASSUME Frames, [Next]_data PROVE Frames'
      OBVIOUS
  <2>1. CASE UNCHANGED data
      BY <2>1 DEF Frames
  <2>2. CASE Receive
    <3>1. PICK b \in Byte : data' = Append(data, b)
        BY <2>2 DEF Receive
    <3>2. data' \in Seq(Byte) /\ Len(data') = Len(data) + 1
        BY <3>1 DEF Frames
    <3> QED
        BY <2>2, <3>2, CodecAssumption DEF Frames, Receive
  <2> QED
      BY <2>1, <2>2 DEF Next
<1> QED
    BY <1>1, <1>2, PTL DEF Spec

\* Pieces of what was received are bytes, no longer than it.
LEMMA PartsFact ==
    ASSUME Frames
    PROVE  /\ \A p \in Parts : p \in Seq(Byte) /\ Len(p) <= Len(data)
           /\ \A p \in Ends : p \in Seq(Byte)
<1>1. ASSUME NEW i \in 1..(Len(data) + 1), NEW j \in 0..Len(data)
      PROVE  SubSeq(data, i, j) \in Seq(Byte) /\ Len(SubSeq(data, i, j)) <= Len(data)
  <2>1. i \in Int /\ j \in Int /\ data \in Seq(Byte)
      BY DEF Frames
  <2>2. \A k \in i..j : data[k] \in Byte
      BY <2>1
  <2>3. /\ SubSeq(data, i, j) \in Seq(Byte)
        /\ Len(SubSeq(data, i, j)) = IF i <= j THEN j - i + 1 ELSE 0
      BY <2>1, <2>2, SubSeqProperties
  <2> QED
      BY <2>1, <2>3
<1>2. Len(data) \in 0..Len(data)
    BY DEF Frames
<1>3. ASSUME NEW p \in Parts PROVE p \in Seq(Byte) /\ Len(p) <= Len(data)
  <2>1. PICK i \in 1..(Len(data) + 1), j \in 0..Len(data) : p = SubSeq(data, i, j)
      BY DEF Parts
  <2> QED
      BY <1>1, <2>1
<1>4. ASSUME NEW p \in Ends PROVE p \in Seq(Byte)
  <2>1. PICK i \in 1..(Len(data) + 1) : p = SubSeq(data, i, Len(data))
      BY DEF Ends
  <2> QED
      BY <1>1, <1>2, <2>1
<1> QED
    BY <1>3, <1>4

\* parseHandshakeInit, splitRespIDPayload and parseHandshakeResponse accept
\* exactly what the encoders write, for every frame.
THEOREM CodecAcceptsExactlyEncodings == Spec => []AcceptsExactlyEncodings
<1>1. Frames => AcceptsExactlyEncodings
  <2> SUFFICES ASSUME Frames PROVE AcceptsExactlyEncodings
      OBVIOUS
  <2>1. data \in Seq(Byte)
      BY DEF Frames
  <2>2. LET p == parseHandshakeInit(data)
        IN  IF Accepted(p) THEN MarshalInit(p.first, p.second) = data
            ELSE \A id \in Parts, sig \in Ends : MarshalInit(id, sig) # data
    <3>1. CASE Accepted(parseHandshakeInit(data))
        BY <2>1, <3>1, InitEncodesDecoded
    <3>2. ASSUME NEW id \in Parts, NEW sig \in Ends, MarshalInit(id, sig) = data
          PROVE  Accepted(parseHandshakeInit(data))
      <4>1. id \in Seq(Byte) /\ sig \in Seq(Byte) /\ MarshalInit(id, sig) \in Seq(Byte)
          BY <2>1, <3>2, PartsFact
      <4>2. parseHandshakeInit(data) = Parsed(id, sig)
          BY <3>2, <4>1, InitDecodesEncoding
      <4> QED
          BY <4>2 DEF Accepted, Parsed
    <3> QED
        BY <3>1, <3>2
  <2>3. LET p == splitRespIDPayload(data)
        IN  IF Accepted(p) THEN buildRespIDPayload(p.first, p.second) = data
            ELSE \A id \in Parts, sig \in Ends : buildRespIDPayload(id, sig) # data
      BY <2>2 DEF splitRespIDPayload, buildRespIDPayload
  <2>4. LET p == parseHandshakeResponse(data)
        IN  IF Accepted(p) THEN /\ MarshalResponse(p.first, p.second) = data
                                /\ Len(p.first) = CiphertextSize
            ELSE \A ct \in Parts, enc \in Ends :
                   Len(ct) = CiphertextSize => MarshalResponse(ct, enc) # data
    <3>1. CASE Accepted(parseHandshakeResponse(data))
        BY <2>1, <3>1, ResponseEncodesDecoded
    <3>2. ASSUME NEW ct \in Parts, NEW enc \in Ends, Len(ct) = CiphertextSize,
                 MarshalResponse(ct, enc) = data
          PROVE  Accepted(parseHandshakeResponse(data))
      <4>1. ct \in Seq(Byte) /\ enc \in Seq(Byte) /\ MarshalResponse(ct, enc) \in Seq(Byte)
          BY <2>1, <3>2, PartsFact
      <4>2. parseHandshakeResponse(data) = Parsed(ct, enc)
          BY <3>2, <4>1, ResponseDecodesEncoding
      <4> QED
          BY <4>2 DEF Accepted, Parsed
    <3> QED
        BY <3>1, <3>2
  <2> QED
      BY <2>2, <2>3, <2>4 DEF AcceptsExactlyEncodings
<1> QED
    BY <1>1, FramesInvariant, PTL

\* ParseIdentityPublic splits a public identity into keys of the right sizes
\* that the libraries accept and that MarshalIdentity joins to the same bytes,
\* and refuses nothing that acceptable keys make up, for all key sizes and
\* whichever keys the libraries accept.
THEOREM CodecIdentityRoundTrip == Spec => []IdentityRoundTrip
<1>1. Frames => IdentityRoundTrip
  <2> SUFFICES ASSUME Frames PROVE IdentityRoundTrip
      OBVIOUS
  <2>1. data \in Seq(Byte)
      BY DEF Frames
  <2>2. PICK pub : pub = ParseIdentityPublic(data)
      OBVIOUS
  <2>3. CASE Accepted(pub)
    <3>1. Len(data) = IdentityPublicSize
        BY <2>2, <2>3 DEF ParseIdentityPublic, Accepted, WrongSize
    <3>2. /\ pub = Cut(data) /\ MarshalIdentity(pub) = data /\ HasSizes(pub)
          /\ pub.dsa \in DSAKeys /\ pub.mlkem \in MLKEMKeys
        BY <2>1, <2>2, <2>3, <3>1, IdentityParts
    <3> QED
        BY <2>2, <2>3, <3>2 DEF IdentityRoundTrip, HasSizes
  <2>4. ASSUME NEW id \in Identities, MarshalIdentity(id) = data
        PROVE  Accepted(pub)
    <3>1. /\ id.ed \in Parts /\ Len(id.ed) = KeySizes.ed
          /\ id.dsa \in Parts /\ id.dsa \in DSAKeys
          /\ id.mlkem \in Parts /\ id.mlkem \in MLKEMKeys
          /\ id.x25519 \in Ends /\ Len(id.x25519) = KeySizes.x25519
        BY DEF Identities
    <3>2. HasSizes(id)
      <4>1. /\ id.ed \in Seq(Byte) /\ id.dsa \in Seq(Byte)
            /\ id.mlkem \in Seq(Byte) /\ id.x25519 \in Seq(Byte)
          BY <3>1, PartsFact
      <4>2. Len(id.dsa) = KeySizes.dsa /\ Len(id.mlkem) = KeySizes.mlkem
          BY <3>1, CodecAssumption
      <4>3. DOMAIN KeySizes = {"ed", "dsa", "mlkem", "x25519"}
          BY CodecAssumption
      <4> QED
          BY <3>1, <4>1, <4>2, <4>3 DEF HasSizes
    <3>3. Len(data) = IdentityPublicSize
        BY <2>4, <3>2, IdentitySize
    <3>4. MarshalIdentity(Cut(data)) = data /\ HasSizes(Cut(data))
        BY <2>1, <3>3, IdentityParts
    <3>5. Cut(data).dsa = id.dsa /\ Cut(data).mlkem = id.mlkem
        BY <2>4, <3>2, <3>4, IdentityInjective
    <3>6. pub = Cut(data)
        BY <2>1, <2>2, <3>1, <3>3, <3>5, IdentityParts
    <3> QED
        BY <3>6 DEF Accepted, Cut
  <2> QED
      BY <2>2, <2>3, <2>4 DEF IdentityRoundTrip
<1> QED
    BY <1>1, FramesInvariant, PTL

\* The offset arithmetic of decodeHandshakeInit and decodeHandshakeResponse in the
\* ports gives what Go's sliceReader gives, error for error, on every frame.
THEOREM CodecPortsAgree == Spec => []PortsAgree
<1>1. Frames => PortsAgree
    BY InitParsersAgree, ResponseParsersAgree DEF Frames, PortsAgree
<1> QED
    BY <1>1, FramesInvariant, PTL

\* No frame that parseHandshakeInit or parseHandshakeResponse accepts is the
\* beginning of a longer one.
THEOREM CodecPrefixFree == Spec => []PrefixFree
<1>1. Frames => PrefixFree
    BY InitPrefixFree, ResponsePrefixFree DEF Frames, PrefixFree
<1> QED
    BY <1>1, FramesInvariant, PTL

\* transcriptHash is given different bytes for different arguments, as long as
\* the lengths fit in the four bytes it writes them in.
THEOREM CodecTranscriptUnambiguous == Spec => []TranscriptUnambiguous
<1>1. Frames => TranscriptUnambiguous
  <2> SUFFICES ASSUME Frames,
                      NEW p \in Parts \X Ends, transcript(p[1], p[2]) = data,
                      NEW q \in Parts \X Ends, transcript(q[1], q[2]) = data
               PROVE  p = q
      BY DEF TranscriptUnambiguous
  <2>1. /\ p[1] \in Seq(Byte) /\ p[2] \in Seq(Byte)
        /\ q[1] \in Seq(Byte) /\ q[2] \in Seq(Byte)
        /\ Len(p[1]) <= Len(data) /\ Len(q[1]) <= Len(data)
      BY PartsFact
  <2>2. Len(p[1]) < Base * Base * Base * Base /\ Len(q[1]) < Base * Base * Base * Base
    <3>1. PICK b : b = Base * Base * Base * Base
        OBVIOUS
    <3>2. b \in Nat /\ MaxLen \in Nat /\ MaxLen < b
      <4>1. Base \in Nat
          BY BaseFact
      <4> QED
          BY <3>1, <4>1, CodecAssumption, LengthsFit
    <3>3. Len(data) \in Nat /\ Len(data) <= MaxLen
        BY DEF Frames
    <3> QED
        BY <2>1, <3>1, <3>2, <3>3
  <2>3. p[1] = q[1] /\ p[2] = q[2]
      BY <2>1, <2>2, TranscriptInjective
  <2> QED
      BY <2>3
<1> QED
    BY <1>1, FramesInvariant, PTL

\* identityDigest is given different bytes for different contexts or messages,
\* even when one context is a prefix of another.
THEOREM CodecDigestUnambiguous == Spec => []DigestUnambiguous
<1>1. Frames => DigestUnambiguous
  <2> SUFFICES ASSUME Frames,
                      NEW p \in Labels \X Ends, identityDigest(p[1], p[2]) = data,
                      NEW q \in Labels \X Ends, identityDigest(q[1], q[2]) = data
               PROVE  p = q
      BY DEF DigestUnambiguous
  <2>1. p[1] \in Labels /\ p[2] \in Seq(Byte) /\ q[1] \in Labels /\ q[2] \in Seq(Byte)
      BY PartsFact
  <2>2. p[1] = q[1] /\ p[2] = q[2]
      BY <2>1, DigestInjective
  <2> QED
      BY <2>2
<1> QED
    BY <1>1, FramesInvariant, PTL
=============================================================================
