--------------------------- MODULE ChannelProofs ---------------------------
(***************************************************************************)
(* Theorems about Channel, for any number of goroutines, any buffer sizes, *)
(* any frame limit and any amount of damage, deadlines and closing.        *)
(***************************************************************************)
EXTENDS Channel, SequenceTheorems, TLAPS

Byte == Nat \X Nat
Rec  == [nonce : Nat, lo : Nat, len : Nat \ {0}]

\* A writer is inside writeFrame.
InFrame(w) == wpc[w] \in {"header", "body"}

\* The byte of the stream at which record k ends; 0 before the first record.
End(k) == IF k = 0 THEN 0 ELSE records[k].lo + records[k].len

\* Records are numbered as they are sealed and tile the stream.
RecordsOK ==
    /\ writeSeq = Len(records)
    /\ Len(stream) = End(Len(records))
    /\ \A j \in 1..Len(records) : /\ records[j].nonce = j - 1
                                  /\ records[j].lo = End(j - 1)
                                  /\ End(j) <= Len(stream)
    /\ \A i, j \in 1..Len(records) : i < j => End(i) <= records[j].lo

\* The reader has taken the first readSeq records, each whole: what it handed
\* out and what it buffers is the stream up to there.
ReadOK ==
    /\ readSeq <= Len(records)
    /\ Len(delivered) + Len(readBuf) = End(readSeq)
    /\ \A i \in 1..Len(delivered) : delivered[i] = stream[i]
    /\ \A i \in 1..Len(readBuf) : readBuf[i] = stream[Len(delivered) + i]

\* The mutex is held by the writer that is past Lock, and a writer inside
\* writeFrame works on the last record.
WriterOK ==
    /\ \A w \in Writers :
          wpc[w] \in {"loop", "header", "body"} <=> writeMu = w
    /\ \A w \in Writers : InFrame(w) => records # <<>>

\* So is the readers' mutex, and a reader waiting for a payload found readBuf
\* empty.
ReaderOK ==
    \A r \in Readers : /\ rpc[r] \in {"locked", "body"} <=> readMu = r
                       /\ rpc[r] = "body" => readBuf = <<>>

Inv == TypeOK /\ RecordsOK /\ ReadOK /\ WriterOK /\ ReaderOK

\* A torn record, and the one being written, is not complete in transit.
AnyInFrame == \E w \in Writers : InFrame(w)

CellOK(c) ==
    c[1] = "body" => /\ c[2] \in 1..Len(records)
                     /\ c[2] \in torn => c[3] < CtLen(c[2])
                     /\ AnyInFrame => c[2] # Len(records)

WireOK == \A p \in 1..Len(wire) : CellOK(wire[p])

\* Nor has the reader opened it.
TornOK ==
    /\ \A t \in torn : readSeq < t
    /\ AnyInFrame => readSeq < Len(records) /\ Len(records) \notin torn

IInv == Inv /\ WireOK /\ TornOK

-----------------------------------------------------------------------------
(***************************************************************************)
(* Facts about sequences.                                                  *)
(***************************************************************************)

\* Drop removes the first n elements.
LEMMA DropFact ==
    ASSUME NEW S, NEW s \in Seq(S), NEW n \in 0..Len(s)
    PROVE  /\ Drop(s, n) \in Seq(S)
           /\ Len(Drop(s, n)) = Len(s) - n
           /\ \A i \in 1..(Len(s) - n) : Drop(s, n)[i] = s[n + i]
BY SubSeqProperties DEF Drop

\* SubSeq(s, 1, n) keeps them.
LEMMA TakeFact ==
    ASSUME NEW S, NEW s \in Seq(S), NEW n \in 0..Len(s)
    PROVE  /\ SubSeq(s, 1, n) \in Seq(S)
           /\ Len(SubSeq(s, 1, n)) = n
           /\ \A i \in 1..n : SubSeq(s, 1, n)[i] = s[i]
BY SubSeqProperties

\* SubSeq(s, m + 1, m + n) is the n elements after the first m.
LEMMA SliceFact ==
    ASSUME NEW S, NEW s \in Seq(S), NEW m \in Nat, NEW n \in Nat,
           m + n <= Len(s)
    PROVE  /\ SubSeq(s, m + 1, m + n) \in Seq(S)
           /\ Len(SubSeq(s, m + 1, m + n)) = n
           /\ \A i \in 1..n : SubSeq(s, m + 1, m + n)[i] = s[m + i]
BY SubSeqProperties

\* Concatenation, by position.
LEMMA ConcatFact ==
    ASSUME NEW S, NEW s \in Seq(S), NEW t \in Seq(S)
    PROVE  /\ s \o t \in Seq(S)
           /\ Len(s \o t) = Len(s) + Len(t)
           /\ \A i \in 1..Len(s) : (s \o t)[i] = s[i]
           /\ \A i \in 1..Len(t) : (s \o t)[Len(s) + i] = t[i]
BY ConcatProperties

\* A function on 1..n is a sequence of length n.
LEMMA TableFact ==
    ASSUME NEW S, NEW n \in Nat, NEW f \in [1..n -> S]
    PROVE  f \in Seq(S) /\ Len(f) = n
<1>1. f \in Seq(S)
    BY IsASeq
<1>2. DOMAIN f = 1..n
    OBVIOUS
<1> QED
    BY <1>1, <1>2, LenProperties

\* A length header: HdrSize cells.
LEMMA HdrFact ==
    ASSUME NEW n \in Nat
    PROVE  Hdr(n) \in Seq(Cells) /\ Len(Hdr(n)) = HdrSize
<1>1. Hdr(n) \in [1..HdrSize -> Cells]
    BY SizeAssumption DEF Hdr, Cells
<1> QED
    BY <1>1, TableFact, SizeAssumption

\* The ciphertext of a record: its length and its cells.
LEMMA BodyFact ==
    ASSUME TypeOK, NEW j \in 1..Len(records)
    PROVE  /\ CtLen(j) \in Nat \ {0}
           /\ Body(j) \in Seq(Cells)
           /\ Len(Body(j)) = CtLen(j)
           /\ \A i \in 1..CtLen(j) : Body(j)[i] = <<"body", j, i>>
<1>1. records[j] \in Rec
  <2>1. records \in Seq(Rec)
      BY DEF TypeOK, Rec
  <2> QED
      BY <2>1, ElementOfSeq
<1>2. CtLen(j) \in Nat \ {0}
    BY <1>1, SizeAssumption DEF CtLen, Rec
<1>3. Body(j) \in [1..CtLen(j) -> Cells]
    BY <1>2 DEF Body, Cells
<1>4. \A i \in 1..CtLen(j) : Body(j)[i] = <<"body", j, i>>
    BY DEF Body
<1> QED
    BY <1>2, <1>3, <1>4, TableFact

\* A writer in writeFrame hands raw.Write a sequence of cells, at least one.
LEMMA OutgoingFact ==
    ASSUME TypeOK, WriterOK, NEW w \in Writers, InFrame(w)
    PROVE  /\ Len(records) \in 1..Len(records)
           /\ Outgoing(w) \in Seq(Cells)
           /\ Len(Outgoing(w)) \in Nat \ {0}
<1>1. Len(records) \in 1..Len(records)
    BY DEF WriterOK, TypeOK
<1>2. /\ CtLen(Len(records)) \in Nat \ {0}
      /\ Body(Len(records)) \in Seq(Cells)
      /\ Len(Body(Len(records))) = CtLen(Len(records))
    BY <1>1, BodyFact
<1>3. /\ Hdr(CtLen(Len(records))) \in Seq(Cells)
      /\ Len(Hdr(CtLen(Len(records)))) = HdrSize
    BY <1>2, HdrFact
<1> QED
    BY <1>1, <1>2, <1>3, SizeAssumption DEF Outgoing

\* The chunk Write seals next is not empty and leaves the rest of the buffer.
LEMMA ChunkFact ==
    ASSUME TypeOK, NEW w \in Writers, MoreToWrite(w)
    PROVE  ChunkLen(w) \in Nat \ {0} /\ ChunkLen(w) <= wlen[w] - written[w]
BY SizeAssumption DEF TypeOK, MoreToWrite, ChunkLen, maxPlain, Lesser

-----------------------------------------------------------------------------
(***************************************************************************)
(* Type correctness.                                                       *)
(***************************************************************************)

\* TypeOK, side by side: writers, connection, readers, fault counters.
WriterType ==
    /\ writeMu \in Writers \cup {Free}
    /\ writeSeq \in 0..SeqMax
    /\ wpc \in [Writers -> {"idle", "lock", "loop", "header", "body"}]
    /\ wlen \in [Writers -> Nat]
    /\ written \in [Writers -> Nat]
    /\ wcall \in [Writers -> Nat]
    /\ writes \in Nat
    /\ records \in Seq(Rec)
    /\ stream \in Seq(Byte)
    /\ torn \subseteq 1..Len(records)

ConnType == wire \in Seq(Cells) /\ sOpen \in BOOLEAN /\ rOpen \in BOOLEAN

ReaderType ==
    /\ readMu \in Readers \cup {Free}
    /\ readSeq \in 0..SeqMax
    /\ readBuf \in Seq(Byte)
    /\ rpc \in [Readers -> {"idle", "lock", "locked", "body"}]
    /\ rcap \in [Readers -> Nat]
    /\ need \in 0..MaxFrameSize
    /\ delivered \in Seq(Byte)
    /\ readErrs \subseteq Errors

FaultType ==
    /\ cut \in BOOLEAN
    /\ wireFaults \in Nat
    /\ readDeadlines \in Nat
    /\ writeDeadlines \in Nat

\* The four parts are TypeOK, in this state and the next.
LEMMA TypeParts ==
    /\ TypeOK' => WriterType' /\ ConnType' /\ ReaderType' /\ FaultType'
    /\ WriterType /\ ConnType /\ ReaderType /\ FaultType => TypeOK
    /\ TypeOK => WriterType /\ ConnType /\ ReaderType /\ FaultType
    /\ WriterType' /\ ConnType' /\ ReaderType' /\ FaultType' => TypeOK'
BY DEF TypeOK, WriterType, ConnType, ReaderType, FaultType, Rec, Byte

\* A side whose variables do not change keeps its types.
LEMMA TypeUnchanged ==
    /\ TypeOK /\ UNCHANGED wvars => WriterType'
    /\ TypeOK /\ UNCHANGED <<wire, sOpen, rOpen>> => ConnType'
    /\ TypeOK /\ UNCHANGED rvars => ReaderType'
    /\ TypeOK /\ UNCHANGED fvars => FaultType'
BY DEF TypeOK, WriterType, ConnType, ReaderType, FaultType, Rec, Byte,
       wvars, rvars, fvars

\* Lengths are natural numbers.
LEMMA Lengths ==
    /\ TypeOK => /\ Len(records) \in Nat /\ Len(stream) \in Nat
                 /\ Len(wire) \in Nat
                 /\ Len(readBuf) \in Nat /\ Len(delivered) \in Nat
                 /\ readSeq \in Nat /\ writeSeq \in Nat
    /\ TypeOK' => /\ Len(records') \in Nat /\ Len(stream') \in Nat
                  /\ Len(wire') \in Nat
                  /\ Len(readBuf') \in Nat /\ Len(delivered') \in Nat
                  /\ readSeq' \in Nat /\ writeSeq' \in Nat
BY TypeParts, LenProperties, SizeAssumption
DEF WriterType, ConnType, ReaderType

\* Copy splits a plaintext between the caller's buffer and readBuf.
LEMMA CopyType ==
    ASSUME TypeOK, NEW r \in Readers, NEW p \in Seq(Byte), Copy(r, p)
    PROVE  /\ delivered' \in Seq(Byte) /\ readBuf' \in Seq(Byte)
           /\ Len(delivered') + Len(readBuf') = Len(delivered) + Len(p)
           /\ Len(delivered') >= Len(delivered)
           /\ \A i \in 1..Len(delivered) : delivered'[i] = delivered[i]
           /\ \A i \in (Len(delivered) + 1)..Len(delivered') :
                  delivered'[i] = p[i - Len(delivered)]
           /\ \A i \in 1..Len(readBuf') :
                  readBuf'[i] = p[Len(delivered') - Len(delivered) + i]
<1> DEFINE n == Lesser(rcap[r], Len(p))
<1>1. n \in 0..Len(p)
    BY DEF TypeOK, Lesser
<1>2. delivered \in Seq(Byte)
    BY DEF TypeOK, Byte
<1>3. delivered' = delivered \o SubSeq(p, 1, n) /\ readBuf' = Drop(p, n)
    BY DEF Copy
<1>4. /\ SubSeq(p, 1, n) \in Seq(Byte)
      /\ Len(SubSeq(p, 1, n)) = n
      /\ \A i \in 1..n : SubSeq(p, 1, n)[i] = p[i]
    BY <1>1, TakeFact
<1>5. /\ Drop(p, n) \in Seq(Byte)
      /\ Len(Drop(p, n)) = Len(p) - n
      /\ \A i \in 1..(Len(p) - n) : Drop(p, n)[i] = p[n + i]
    BY <1>1, DropFact
<1>6. /\ delivered' \in Seq(Byte)
      /\ Len(delivered') = Len(delivered) + n
      /\ \A i \in 1..Len(delivered) : delivered'[i] = delivered[i]
      /\ \A i \in 1..n : delivered'[Len(delivered) + i] = p[i]
    BY <1>2, <1>3, <1>4, ConcatFact
<1> HIDE DEF n
<1>7. \A i \in (Len(delivered) + 1)..Len(delivered') :
          delivered'[i] = p[i - Len(delivered)]
  <2> TAKE i \in (Len(delivered) + 1)..Len(delivered')
  <2>1. i - Len(delivered) \in 1..n
      BY <1>1, <1>2, <1>6
  <2> QED
      BY <1>2, <1>6, <2>1
<1>8. Len(delivered') \in Nat /\ Len(delivered) \in Nat /\ Len(p) \in Nat
    BY <1>2, <1>6
<1>9. Len(readBuf') = Len(p) - n /\ Len(delivered') - Len(delivered) = n
    BY <1>1, <1>3, <1>5, <1>6, <1>8
<1>10. \A i \in 1..Len(readBuf') :
          readBuf'[i] = p[Len(delivered') - Len(delivered) + i]
    BY <1>3, <1>5, <1>9
<1>11. /\ Len(delivered') + Len(readBuf') = Len(delivered) + Len(p)
       /\ Len(delivered') >= Len(delivered)
    BY <1>1, <1>8, <1>9
<1> QED
    BY <1>3, <1>5, <1>6, <1>7, <1>10, <1>11

\* The plaintext of a record is a piece of the stream.
LEMMA PlaintextFact ==
    ASSUME TypeOK, RecordsOK, NEW j \in 1..Len(records)
    PROVE  /\ Plaintext(j) \in Seq(Byte)
           /\ Len(Plaintext(j)) = records[j].len
           /\ \A i \in 1..records[j].len :
                  Plaintext(j)[i] = stream[records[j].lo + i]
<1>1. records[j] \in Rec
  <2>1. records \in Seq(Rec)
      BY DEF TypeOK, Rec
  <2> QED
      BY <2>1, ElementOfSeq
<1>2. stream \in Seq(Byte)
    BY DEF TypeOK, Byte
<1>3. records[j].lo + records[j].len <= Len(stream)
    BY <1>1 DEF RecordsOK, End
<1> QED
    BY <1>1, <1>2, <1>3, SliceFact, SMTT(30) DEF Plaintext, Rec


\* What an error return from Read preserves, given how many cells it took.
LEMMA ReadFailsType ==
    ASSUME TypeOK, NEW r \in Readers, NEW err \in Errors,
           NEW n \in 0..Len(wire), ReadFails(r, err, n), FaultType'
    PROVE  TypeOK'
<1>1. wire' \in Seq(Cells)
    BY DropFact DEF ReadFails, TypeOK
<1>2. UNCHANGED <<wvars, sOpen, rOpen>>
    BY DEF ReadFails, ReturnFromRead
<1>3. WriterType' /\ ConnType'
    BY <1>1, <1>2, TypeUnchanged, TypeParts DEF ConnType
<1>4. ReaderType'
    BY TypeParts, SizeAssumption DEF ReaderType, ReadFails, ReturnFromRead
<1> QED
    BY <1>3, <1>4, TypeParts

\* Every step keeps every variable in its type.
LEMMA TypeStep ==
    ASSUME TypeOK, RecordsOK, WriterOK, [Next]_vars
    PROVE  TypeOK'
<1>a. WriterType /\ ConnType /\ ReaderType /\ FaultType
    BY TypeParts
<1>1. ASSUME NEW w \in Writers, WriteCall(w) PROVE TypeOK'
  <2>1. WriterType'
      BY <1>1, <1>a, SizeAssumption DEF WriteCall, WriterType
  <2> QED
      BY <1>1, <2>1, TypeParts, TypeUnchanged DEF WriteCall
<1>2. ASSUME NEW w \in Writers, WriteLock(w) PROVE TypeOK'
  <2>1. WriterType'
      BY <1>2, <1>a DEF WriteLock, WriterType
  <2> QED
      BY <1>2, <2>1, TypeParts, TypeUnchanged DEF WriteLock
<1>3. ASSUME NEW w \in Writers, Seal(w) PROVE TypeOK'
  <2> DEFINE n == ChunkLen(w)
             rec == [nonce |-> writeSeq, lo |-> Len(stream), len |-> n]
             chunk == [i \in 1..n |-> <<wcall[w], written[w] + i>>]
  <2>1. n \in Nat \ {0}
      BY <1>3, ChunkFact DEF Seal
  <2>2. rec \in Rec
      BY <1>a, <2>1 DEF WriterType, Rec
  <2>3. chunk \in [1..n -> Byte]
      BY <1>a, <2>1 DEF WriterType, Byte
  <2>4. chunk \in Seq(Byte)
      BY <2>1, <2>3, TableFact
  <2>5. records' = Append(records, rec) /\ stream' = stream \o chunk
      BY <1>3 DEF Seal
  <2> HIDE DEF n, rec, chunk
  <2>6. records' \in Seq(Rec) /\ Len(records') = Len(records) + 1
      BY <1>a, <2>2, <2>5, AppendProperties DEF WriterType
  <2>7. stream' \in Seq(Byte)
      BY <1>a, <2>4, <2>5, ConcatFact DEF WriterType
  <2>8. writeSeq' \in 0..SeqMax
      BY <1>3, <1>a, SizeAssumption DEF Seal, WriterType, SeqExhausted
  <2>9. torn' \subseteq 1..Len(records')
      BY <1>3, <1>a, <2>6 DEF Seal, WriterType
  <2>10. WriterType'
      BY <1>3, <1>a, <2>6, <2>7, <2>8, <2>9 DEF Seal, WriterType
  <2> QED
      BY <1>3, <2>10, TypeParts, TypeUnchanged DEF Seal
<1>4. ASSUME NEW w \in Writers, WriteHeader(w) PROVE TypeOK'
  <2>1. InFrame(w)
      BY <1>4 DEF WriteHeader, InFrame
  <2>2. CtLen(Len(records)) \in Nat
      BY <2>1, OutgoingFact, BodyFact
  <2>3. wire' \in Seq(Cells)
      BY <1>4, <1>a, <2>2, HdrFact, ConcatFact DEF WriteHeader, ConnType
  <2>4. WriterType' /\ ConnType'
      BY <1>4, <1>a, <2>3 DEF WriteHeader, WriterType, ConnType
  <2> QED
      BY <1>4, <2>4, TypeParts, TypeUnchanged DEF WriteHeader
<1>5. ASSUME NEW w \in Writers, WriteBody(w) PROVE TypeOK'
  <2>1. InFrame(w)
      BY <1>5 DEF WriteBody, InFrame
  <2>2. Len(records) \in 1..Len(records)
      BY <2>1, OutgoingFact
  <2>3. wire' \in Seq(Cells)
      BY <1>5, <1>a, <2>2, BodyFact, ConcatFact DEF WriteBody, ConnType
  <2>4. records[Len(records)] \in Rec
      BY <1>a, <2>2, ElementOfSeq DEF WriterType
  <2>5. written[w] + records[Len(records)].len \in Nat
      BY <1>a, <2>4, SMTT(30) DEF WriterType, Rec
  <2>6. written' \in [Writers -> Nat]
      BY <1>5, <1>a, <2>5 DEF WriteBody, WriterType
  <2>7. WriterType' /\ ConnType'
      BY <1>5, <1>a, <2>3, <2>6 DEF WriteBody, WriterType, ConnType
  <2> QED
      BY <1>5, <2>7, TypeParts, TypeUnchanged DEF WriteBody
<1>6. ASSUME NEW w \in Writers, InFrame(w), NEW k \in 0..(Len(Outgoing(w)) - 1),
             AbandonFrame(w, k), writeDeadlines' \in Nat
      PROVE  TypeOK'
  <2>1. /\ Len(records) \in 1..Len(records)
        /\ Outgoing(w) \in Seq(Cells)
        /\ k \in 0..Len(Outgoing(w))
      BY <1>6, OutgoingFact
  <2>2. SubSeq(Outgoing(w), 1, k) \in Seq(Cells)
      BY <2>1, TakeFact
  <2>3. wire' \in Seq(Cells)
      BY <1>6, <1>a, <2>2, ConcatFact DEF AbandonFrame, ConnType
  <2>4. WriterType' /\ ConnType'
      BY <1>6, <1>a, <2>1, <2>3 DEF AbandonFrame, WriterType, ConnType
  <2>5. FaultType'
      BY <1>6, <1>a DEF AbandonFrame, FaultType
  <2> QED
      BY <1>6, <2>4, <2>5, TypeParts, TypeUnchanged DEF AbandonFrame
<1>7. ASSUME NEW w \in Writers, WriteRefused(w) PROVE TypeOK'
  <2>1. InFrame(w)
      BY <1>7 DEF WriteRefused, InFrame
  <2>2. RefusedAt(w) \subseteq 0..(Len(Outgoing(w)) - 1)
      BY <2>1, OutgoingFact DEF RefusedAt
  <2>3. writeDeadlines' \in Nat
      BY <1>7, <1>a DEF WriteRefused, FaultType
  <2> QED
      BY <1>6, <1>7, <2>1, <2>2, <2>3 DEF WriteRefused
<1>8. ASSUME NEW w \in Writers, WriteExpired(w) PROVE TypeOK'
  <2>1. InFrame(w) /\ writeDeadlines' \in Nat
      BY <1>8, <1>a DEF WriteExpired, InFrame, FaultType
  <2> QED
      BY <1>6, <1>8, <2>1 DEF WriteExpired
<1>9. ASSUME NEW w \in Writers, WriteReturn(w) PROVE TypeOK'
  <2>1. WriterType'
      BY <1>9, <1>a DEF WriteReturn, WriterType
  <2> QED
      BY <1>9, <2>1, TypeParts, TypeUnchanged DEF WriteReturn
<1>10. ASSUME NEW r \in Readers, ReadCall(r) PROVE TypeOK'
  <2>1. ReaderType'
      BY <1>10, <1>a, SizeAssumption DEF ReadCall, ReaderType
  <2> QED
      BY <1>10, <2>1, TypeParts, TypeUnchanged DEF ReadCall
<1>11. ASSUME NEW r \in Readers, ReadLock(r) PROVE TypeOK'
  <2>1. ReaderType'
      BY <1>11, <1>a DEF ReadLock, ReaderType
  <2> QED
      BY <1>11, <2>1, TypeParts, TypeUnchanged DEF ReadLock
<1>12. ASSUME NEW r \in Readers, ReadBuffered(r) PROVE TypeOK'
  <2>1. delivered' \in Seq(Byte) /\ readBuf' \in Seq(Byte)
      BY <1>12, <1>a, CopyType DEF ReadBuffered, ReaderType
  <2>2. ReaderType'
      BY <1>12, <1>a, <2>1, SizeAssumption
      DEF ReadBuffered, ReturnFromRead, ReaderType
  <2> QED
      BY <1>12, <2>2, TypeParts, TypeUnchanged DEF ReadBuffered, ReturnFromRead
<1>13. ASSUME NEW r \in Readers, ReadHeader(r) PROVE TypeOK'
  <2>1. wire' \in Seq(Cells)
      BY <1>13, <1>a, DropFact, SizeAssumption DEF ReadHeader, ConnType
  <2>2. ReaderType' /\ ConnType'
      BY <1>13, <1>a, <2>1, SizeAssumption DEF ReadHeader, ReaderType, ConnType
  <2> QED
      BY <1>13, <2>2, TypeParts, TypeUnchanged DEF ReadHeader
<1>14. ASSUME NEW r \in Readers, ReadBadLength(r) PROVE TypeOK'
  <2>1. HdrSize \in 0..Len(wire)
      BY <1>14, <1>a, SizeAssumption DEF ReadBadLength, ConnType
  <2>2. PICK err \in Errors : ReadFails(r, err, HdrSize)
      BY <1>14 DEF ReadBadLength, Errors
  <2> QED
      BY <1>14, <2>1, <2>2, ReadFailsType, TypeUnchanged DEF ReadBadLength
<1>15. ASSUME NEW r \in Readers, ReadOpen(r) PROVE TypeOK'
  <2>1. PICK j \in 1..Len(records) : Copy(r, Plaintext(j))
      BY <1>15 DEF ReadOpen
  <2>2. Plaintext(j) \in Seq(Byte)
      BY PlaintextFact
  <2>3. delivered' \in Seq(Byte) /\ readBuf' \in Seq(Byte)
      BY <2>1, <2>2, CopyType
  <2>4. wire' \in Seq(Cells)
      BY <1>15, <1>a, DropFact, SMTT(30) DEF ReadOpen, FrameArrived, ConnType, ReaderType
  <2>5. readSeq' \in 0..SeqMax
      BY <1>15, <1>a, SizeAssumption DEF ReadOpen, SeqExhausted, ReaderType
  <2>6. ReaderType' /\ ConnType'
      BY <1>15, <1>a, <2>3, <2>4, <2>5, SizeAssumption
      DEF ReadOpen, ReturnFromRead, ReaderType, ConnType
  <2> QED
      BY <1>15, <2>6, TypeParts, TypeUnchanged DEF ReadOpen, ReturnFromRead
<1>16. ASSUME NEW r \in Readers, ReadCorrupted(r) PROVE TypeOK'
  <2>1. need \in 0..Len(wire) /\ "corrupted" \in Errors
      BY <1>16, <1>a
      DEF ReadCorrupted, FrameArrived, ConnType, ReaderType, Errors
  <2> QED
      BY <1>16, <2>1, ReadFailsType, TypeUnchanged DEF ReadCorrupted
<1>17. ASSUME NEW r \in Readers, ReadExhausted(r) PROVE TypeOK'
  <2>1. need \in 0..Len(wire) /\ "exhausted" \in Errors
      BY <1>17, <1>a
      DEF ReadExhausted, FrameArrived, ConnType, ReaderType, Errors
  <2> QED
      BY <1>17, <2>1, ReadFailsType, TypeUnchanged DEF ReadExhausted
<1>18. ASSUME NEW r \in Readers, ReadEOF(r) PROVE TypeOK'
  <2>1. Len(wire) \in 0..Len(wire) /\ "eof" \in Errors
      BY <1>a DEF ConnType, Errors
  <2> QED
      BY <1>18, <2>1, ReadFailsType, TypeUnchanged DEF ReadEOF
<1>19. ASSUME NEW r \in Readers, ReadClosed(r) PROVE TypeOK'
  <2>1. 0 \in 0..Len(wire) /\ "closed" \in Errors
      BY <1>a DEF ConnType, Errors
  <2> QED
      BY <1>19, <2>1, ReadFailsType, TypeUnchanged DEF ReadClosed
<1>20. ASSUME NEW r \in Readers, ReadExpired(r) PROVE TypeOK'
  <2>1. PICK n \in 0..Lesser(Len(wire), Wanted(r) - 1) :
            ReadFails(r, "timeout", n) /\ cut' \in BOOLEAN
      BY <1>20, <1>a DEF ReadExpired, FaultType
  <2>2. n \in 0..Len(wire) /\ "timeout" \in Errors
      BY <1>a, <2>1, SizeAssumption
      DEF ConnType, ReaderType, Errors, Lesser, Wanted
  <2>3. FaultType'
      BY <1>20, <1>a, <2>1 DEF ReadExpired, FaultType
  <2> QED
      BY <2>1, <2>2, <2>3, ReadFailsType
<1>21. CASE CloseSender
  <2>1. ConnType'
      BY <1>21, <1>a DEF CloseSender, ConnType
  <2> QED
      BY <1>21, <2>1, TypeParts, TypeUnchanged DEF CloseSender
<1>22. CASE CloseReceiver
  <2>1. ConnType'
      BY <1>22, <1>a DEF CloseReceiver, ConnType
  <2> QED
      BY <1>22, <2>1, TypeParts, TypeUnchanged DEF CloseReceiver
<1>23. ASSUME NEW kind, Damage(kind), wire' \in Seq(Cells) PROVE TypeOK'
  <2>1. ConnType' /\ FaultType'
      BY <1>23, <1>a DEF Damage, ConnType, FaultType
  <2> QED
      BY <1>23, <2>1, TypeParts, TypeUnchanged DEF Damage
<1>24. CASE Corrupt
  <2>1. Junk \in Cells
      BY DEF Junk, Cells
  <2>2. wire' \in Seq(Cells)
      BY <1>24, <1>a, <2>1, ExceptSeq DEF Corrupt, ConnType
  <2> QED
      BY <1>23, <1>24, <2>2 DEF Corrupt
<1>25. CASE Lose
  <2>1. PICK i \in 1..Len(wire) : wire' = SubSeq(wire, 1, i - 1) \o Drop(wire, i)
      BY <1>25 DEF Lose
  <2>2. SubSeq(wire, 1, i - 1) \in Seq(Cells) /\ Drop(wire, i) \in Seq(Cells)
      BY <1>a, TakeFact, DropFact DEF ConnType
  <2>3. wire' \in Seq(Cells)
      BY <2>1, <2>2, ConcatFact
  <2> QED
      BY <1>23, <1>25, <2>3 DEF Lose
<1>26. CASE Duplicate
  <2>1. PICK j \in 1..Len(records) : wire' = wire \o Hdr(CtLen(j)) \o Body(j)
      BY <1>26 DEF Duplicate, Framed
  <2>2. Hdr(CtLen(j)) \in Seq(Cells) /\ Body(j) \in Seq(Cells)
      BY BodyFact, HdrFact
  <2>3. wire' \in Seq(Cells)
      BY <1>a, <2>1, <2>2, ConcatFact DEF ConnType
  <2> QED
      BY <1>23, <1>26, <2>3 DEF Duplicate
<1>27. CASE UNCHANGED vars
    BY <1>27, TypeParts, TypeUnchanged DEF vars
<1> QED
    BY <1>1, <1>2, <1>3, <1>4, <1>5, <1>7, <1>8, <1>9, <1>10, <1>11, <1>12,
       <1>13, <1>14, <1>15, <1>16, <1>17, <1>18, <1>19, <1>20, <1>21, <1>22,
       <1>24, <1>25, <1>26, <1>27
    DEF Next, WriterStep, ReaderStep

-----------------------------------------------------------------------------
(***************************************************************************)
(* The inductive invariant.                                                *)
(***************************************************************************)

\* Only Seal touches the records, and only ReadBuffered and ReadOpen touch what
\* has been read.
LEMMA WhoChangesWhat ==
    ASSUME [Next]_vars
    PROVE  /\ \/ \E w \in Writers : Seal(w)
              \/ UNCHANGED <<writeSeq, records, stream>>
           /\ \/ \E r \in Readers : ReadBuffered(r) \/ ReadOpen(r)
              \/ UNCHANGED <<readSeq, readBuf, delivered>>
<1> USE DEF wvars, rvars, fvars, ReturnFromRead, ReadFails
<1>1. ASSUME NEW w \in Writers,
             WriteCall(w) \/ WriteLock(w) \/ WriterStep(w) \/ WriteExpired(w)
      PROVE  /\ Seal(w) \/ UNCHANGED <<writeSeq, records, stream>>
             /\ UNCHANGED <<readSeq, readBuf, delivered>>
    BY <1>1 DEF WriteCall, WriteLock, WriterStep, Seal, WriteHeader, WriteBody,
                WriteRefused, WriteExpired, AbandonFrame, WriteReturn
<1>2. ASSUME NEW r \in Readers,
             ReadCall(r) \/ ReadLock(r) \/ ReaderStep(r) \/ ReadExpired(r)
      PROVE  /\ UNCHANGED <<writeSeq, records, stream>>
             /\ \/ ReadBuffered(r) \/ ReadOpen(r)
                \/ UNCHANGED <<readSeq, readBuf, delivered>>
    BY <1>2 DEF ReadCall, ReadLock, ReaderStep, ReadBuffered, ReadHeader,
                ReadBadLength, ReadOpen, ReadCorrupted, ReadExhausted, ReadEOF,
                ReadClosed, ReadExpired
<1>3. ASSUME CloseSender \/ CloseReceiver \/ Corrupt \/ Lose \/ Duplicate
      PROVE  UNCHANGED <<writeSeq, records, stream, readSeq, readBuf, delivered>>
    BY <1>3 DEF CloseSender, CloseReceiver, Corrupt, Lose, Duplicate, Damage
<1> QED
    BY <1>1, <1>2, <1>3 DEF Next, vars

\* Seal appends a record that starts where the stream ends.
LEMMA SealFact ==
    ASSUME TypeOK, RecordsOK, NEW w \in Writers, Seal(w)
    PROVE  /\ Len(records') = Len(records) + 1
           /\ \A j \in 1..Len(records) : records'[j] = records[j]
           /\ records'[Len(records) + 1].nonce = Len(records)
           /\ records'[Len(records) + 1].lo = Len(stream)
           /\ records'[Len(records) + 1].len \in Nat \ {0}
           /\ Len(stream') = Len(stream) + records'[Len(records) + 1].len
           /\ \A i \in 1..Len(stream) : stream'[i] = stream[i]
           /\ writeSeq' = writeSeq + 1
<1> DEFINE n == ChunkLen(w)
           rec == [nonce |-> writeSeq, lo |-> Len(stream), len |-> n]
           chunk == [i \in 1..n |-> <<wcall[w], written[w] + i>>]
<1>a. WriterType
    BY TypeParts
<1>1. n \in Nat \ {0}
    BY ChunkFact DEF Seal
<1>2. rec \in Rec
    BY <1>a, <1>1 DEF WriterType, Rec
<1>3. chunk \in [1..n -> Byte]
    BY <1>a, <1>1 DEF WriterType, Byte
<1>4. chunk \in Seq(Byte) /\ Len(chunk) = n
    BY <1>1, <1>3, TableFact
<1>5. records' = Append(records, rec) /\ stream' = stream \o chunk
    BY DEF Seal
<1>6. writeSeq' = writeSeq + 1
  <2>1. writeSeq + 1 \in 0..SeqMax
      BY <1>a, SizeAssumption DEF Seal, SeqExhausted, WriterType
  <2>2. \A k \in 0..SeqMax : k % (SeqMax + 1) = k
      BY SizeAssumption
  <2> QED
      BY <2>1, <2>2 DEF Seal
<1>7. rec.nonce = Len(records) /\ rec.lo = Len(stream) /\ rec.len = n
    BY DEF RecordsOK
<1> HIDE DEF n, rec, chunk
<1>8. /\ Len(records') = Len(records) + 1
      /\ \A j \in 1..Len(records) : records'[j] = records[j]
      /\ records'[Len(records) + 1] = rec
    BY <1>a, <1>2, <1>5, AppendProperties DEF WriterType
<1>9. /\ Len(stream') = Len(stream) + n
      /\ \A i \in 1..Len(stream) : stream'[i] = stream[i]
    BY <1>a, <1>4, <1>5, ConcatFact DEF WriterType
<1> QED
    BY <1>1, <1>6, <1>7, <1>8, <1>9

\* The writers' mutex and the record being framed.
LEMMA WriterOKStep ==
    ASSUME TypeOK, RecordsOK, WriterOK, TypeOK', [Next]_vars
    PROVE  WriterOK'
<1> USE ProcAssumption DEF WriterOK, InFrame, TypeOK
<1>1. ASSUME NEW w \in Writers, WriteCall(w) PROVE WriterOK'
    BY <1>1 DEF WriteCall
<1>2. ASSUME NEW w \in Writers, WriteLock(w) PROVE WriterOK'
    BY <1>2 DEF WriteLock, Unlocked
<1>3. ASSUME NEW w \in Writers, Seal(w) PROVE WriterOK'
  <2>1. Len(records') = Len(records) + 1
      BY <1>3, SealFact
  <2>2. records' # <<>>
      BY <2>1
  <2> QED
      BY <1>3, <2>2 DEF Seal
<1>4. ASSUME NEW w \in Writers, WriteHeader(w) PROVE WriterOK'
    BY <1>4 DEF WriteHeader
<1>5. ASSUME NEW w \in Writers, WriteBody(w) PROVE WriterOK'
    BY <1>5 DEF WriteBody
<1>6. ASSUME NEW w \in Writers, WriteRefused(w) \/ WriteExpired(w)
      PROVE  WriterOK'
  <2>1. wpc[w] \in {"header", "body"} /\ \E k : AbandonFrame(w, k)
      BY <1>6 DEF WriteRefused, WriteExpired
  <2>2. /\ writeMu' = Free
        /\ wpc' = [wpc EXCEPT ![w] = "idle"]
        /\ records' = records
      BY <2>1 DEF AbandonFrame
  <2> QED
      BY <2>1, <2>2
<1>7. ASSUME NEW w \in Writers, WriteReturn(w) PROVE WriterOK'
    BY <1>7 DEF WriteReturn
<1>8. ASSUME UNCHANGED wvars PROVE WriterOK'
    BY <1>8 DEF wvars
<1>9. ASSUME NEW r \in Readers,
             ReadCall(r) \/ ReadLock(r) \/ ReaderStep(r) \/ ReadExpired(r)
      PROVE  UNCHANGED wvars
    BY <1>9 DEF ReadCall, ReadLock, ReaderStep, ReadBuffered, ReadHeader,
                ReadBadLength, ReadOpen, ReadCorrupted, ReadExhausted, ReadEOF,
                ReadClosed, ReadExpired, ReturnFromRead, ReadFails
<1>10. ASSUME CloseSender \/ CloseReceiver \/ Corrupt \/ Lose \/ Duplicate
       PROVE  UNCHANGED wvars
    BY <1>10 DEF CloseSender, CloseReceiver, Corrupt, Lose, Duplicate, Damage
<1> QED
    BY <1>1, <1>2, <1>3, <1>4, <1>5, <1>6, <1>7, <1>8, <1>9, <1>10
    DEF Next, WriterStep, vars

\* End(k) is a natural number.
LEMMA EndFact ==
    ASSUME TypeOK, NEW k \in 0..Len(records)
    PROVE  End(k) \in Nat
<1>1. CASE k = 0
    BY <1>1 DEF End
<1>2. CASE k # 0
  <2>1. records \in Seq(Rec) /\ k \in 1..Len(records)
      BY <1>2, TypeParts DEF WriterType
  <2>2. records[k] \in Rec
      BY <2>1, ElementOfSeq
  <2> QED
      BY <1>2, <2>2 DEF End, Rec
<1> QED
    BY <1>1, <1>2

\* Seal moves no earlier End, and the new record ends where the stream does.
LEMMA EndSeal ==
    ASSUME TypeOK, RecordsOK, NEW w \in Writers, Seal(w)
    PROVE  /\ \A k \in 0..Len(records) : End(k)' = End(k)
           /\ End(Len(records))' = Len(stream')
<1>1. Len(records) \in Nat /\ Len(stream) \in Nat
    BY Lengths
<1>2. ASSUME NEW k \in 0..Len(records) PROVE End(k)' = End(k)
  <2>1. k # 0 => records'[k] = records[k]
      BY <1>1, SealFact
  <2> QED
      BY <2>1 DEF End
<1>3. End(Len(records))' = Len(stream')
    BY <1>1, SealFact DEF End
<1> QED
    BY <1>2, <1>3

\* Records stay numbered and keep tiling the stream.
LEMMA RecordsOKStep ==
    ASSUME TypeOK, RecordsOK, TypeOK', [Next]_vars
    PROVE  RecordsOK'
<1>1. ASSUME NEW w \in Writers, Seal(w) PROVE RecordsOK'
  <2> DEFINE L == Len(records)
  <2>1. L \in Nat /\ Len(stream) \in Nat /\ Len(records') = L + 1
      BY <1>1, SealFact, Lengths
  <2>2. /\ writeSeq' = L + 1
        /\ Len(stream') = End(Len(records))'
        /\ Len(stream') \in Nat
        /\ Len(stream') > Len(stream)
    <3>1. writeSeq' = L + 1
        BY <1>1, <2>1, SealFact DEF RecordsOK
    <3>2. Len(stream') = End(Len(records))'
        BY <1>1, EndSeal
    <3>3. Len(stream') \in Nat
        BY Lengths
    <3>4. Len(stream') > Len(stream)
      <4>1. PICK n \in Nat \ {0} : Len(stream') = Len(stream) + n
          BY <1>1, SealFact
      <4> QED
          BY <2>1, <4>1
    <3> QED
        BY <3>1, <3>2, <3>3, <3>4
  <2>3. \A k \in 0..L : End(k)' = End(k) /\ End(k) \in Nat
      BY <1>1, EndSeal, EndFact
  <2>4. /\ \A j \in 1..L : records'[j] = records[j]
        /\ records'[L + 1].nonce = L
        /\ records'[L + 1].lo = Len(stream)
      BY <1>1, SealFact
  <2>5. /\ Len(stream) = End(L)
        /\ \A j \in 1..L : /\ records[j].nonce = j - 1
                           /\ records[j].lo = End(j - 1)
                           /\ End(j) <= Len(stream)
        /\ \A i, j \in 1..L : i < j => End(i) <= records[j].lo
      BY DEF RecordsOK
  <2>6. ASSUME NEW j \in 1..(L + 1)
        PROVE  /\ records'[j].nonce = j - 1
               /\ records'[j].lo = End(j - 1)'
               /\ End(j)' <= Len(stream')
    <3>1. CASE j \in 1..L
      <4>1. j \in 0..L /\ j - 1 \in 0..L
          BY <2>1, <3>1
      <4>2. End(j)' = End(j) /\ End(j) \in Nat /\ End(j - 1)' = End(j - 1)
          BY <4>1, <2>3
      <4>3. End(j)' <= Len(stream')
          BY <2>1, <2>2, <2>5, <3>1, <4>2
      <4> QED
          BY <2>4, <2>5, <3>1, <4>2, <4>3
    <3>2. CASE j = L + 1
      <4>1. j - 1 = L /\ j - 1 \in 0..L /\ j = Len(records')
          BY <2>1, <3>2
      <4>2. End(j - 1)' = Len(stream)
          BY <2>3, <2>5, <4>1
      <4>3. End(j)' = Len(stream')
          BY <2>2, <4>1 DEF End
      <4> QED
          BY <2>2, <2>4, <3>2, <4>1, <4>2, <4>3
    <3> QED
        BY <2>1, <3>1, <3>2
  <2>7. ASSUME NEW i \in 1..(L + 1), NEW j \in 1..(L + 1), i < j
        PROVE  End(i)' <= records'[j].lo
    <3>1. i \in 1..L /\ i \in 0..L
        BY <2>1, <2>7
    <3>2. End(i)' = End(i)
        BY <2>3, <3>1
    <3>3. CASE j \in 1..L
        BY <2>4, <2>5, <2>7, <3>1, <3>2, <3>3
    <3>4. CASE j = L + 1
        BY <2>4, <2>5, <3>1, <3>2, <3>4
    <3> QED
        BY <2>1, <3>3, <3>4
  <2> HIDE DEF L
  <2> QED
      BY <2>1, <2>2, <2>6, <2>7 DEF RecordsOK
<1>2. CASE UNCHANGED <<writeSeq, records, stream>>
    BY <1>2 DEF RecordsOK, End
<1> QED
    BY <1>1, <1>2, WhoChangesWhat

\* Opening a record under readSeq opens record readSeq + 1 and no other.
LEMMA OpenFact ==
    ASSUME TypeOK, RecordsOK, NEW r \in Readers, ReadOpen(r)
    PROVE  LET j == readSeq + 1
           IN  /\ j \in 1..Len(records)
               /\ SubSeq(wire, 1, need) = Body(j)
               /\ Copy(r, Plaintext(j))
               /\ readSeq' = j
<1>1. PICK k \in 1..Len(records) :
          Opens(SubSeq(wire, 1, need), readSeq, k) /\ Copy(r, Plaintext(k))
    BY DEF ReadOpen
<1>2. k = readSeq + 1
  <2>1. records[k].nonce = readSeq
      BY <1>1 DEF Opens
  <2>2. records[k].nonce = k - 1
      BY DEF RecordsOK
  <2> QED
      BY <2>1, <2>2
<1> QED
    BY <1>1, <1>2 DEF Opens, ReadOpen

\* The readers' mutex.
LEMMA ReaderOKStep ==
    ASSUME TypeOK, ReaderOK, [Next]_vars
    PROVE  ReaderOK'
<1> USE ProcAssumption DEF ReaderOK
<1>a. ReaderType
    BY TypeParts
<1> USE DEF ReaderType
<1>1. ASSUME NEW r \in Readers, ReadCall(r) PROVE ReaderOK'
    BY <1>1, <1>a DEF ReadCall
<1>2. ASSUME NEW r \in Readers, ReadLock(r) PROVE ReaderOK'
    BY <1>2, <1>a DEF ReadLock, Unlocked
<1>3. ASSUME NEW r \in Readers, ReadHeader(r) PROVE ReaderOK'
    BY <1>3, <1>a DEF ReadHeader
<1>4. ASSUME NEW r \in Readers, rpc[r] \in {"locked", "body"},
             ReturnFromRead(r)
      PROVE  ReaderOK'
    BY <1>4, <1>a DEF ReturnFromRead
<1>5. ASSUME NEW r \in Readers, ReaderStep(r) \/ ReadExpired(r)
      PROVE  ReaderOK'
    BY <1>3, <1>4, <1>5
    DEF ReaderStep, ReadBuffered, ReadBadLength, ReadOpen, ReadCorrupted,
        ReadExhausted, ReadEOF, ReadClosed, ReadExpired, ReadFails, InReadFull,
        FrameArrived
<1>6. ASSUME NEW w \in Writers,
             WriteCall(w) \/ WriteLock(w) \/ WriterStep(w) \/ WriteExpired(w)
      PROVE  UNCHANGED rvars
    BY <1>6 DEF WriteCall, WriteLock, WriterStep, Seal, WriteHeader, WriteBody,
                WriteRefused, WriteExpired, AbandonFrame, WriteReturn
<1>7. ASSUME CloseSender \/ CloseReceiver \/ Corrupt \/ Lose \/ Duplicate
      PROVE  UNCHANGED rvars
    BY <1>7 DEF CloseSender, CloseReceiver, Corrupt, Lose, Duplicate, Damage
<1>8. CASE UNCHANGED rvars
    BY <1>8 DEF rvars
<1> QED
    BY <1>1, <1>2, <1>5, <1>6, <1>7, <1>8 DEF Next, vars

\* Reading copies the stream, record after record.
LEMMA ReadOKStep ==
    ASSUME TypeOK, RecordsOK, ReadOK, ReaderOK, TypeOK', [Next]_vars
    PROVE  ReadOK'
<1>a. /\ Len(delivered) \in Nat /\ Len(readBuf) \in Nat
      /\ Len(records) \in Nat /\ Len(stream) \in Nat /\ readSeq \in Nat
      /\ readSeq \in 0..Len(records)
    BY Lengths DEF ReadOK
<1>b. End(readSeq) \in Nat
    BY <1>a, EndFact
<1>1. ASSUME NEW w \in Writers, Seal(w) PROVE ReadOK'
  <2>1. UNCHANGED <<readSeq, readBuf, delivered>>
      BY <1>1 DEF Seal, rvars
  <2>2. End(readSeq)' = End(readSeq)
      BY <1>1, <1>a, <2>1, EndSeal
  <2>3. Len(records') = Len(records) + 1
      BY <1>1, SealFact
  <2>4. End(readSeq) <= Len(stream)
      BY <1>a, <1>b DEF RecordsOK, End
  <2>5. \A i \in 1..Len(stream) : stream'[i] = stream[i]
      BY <1>1, SealFact
  <2>6. /\ \A i \in 1..Len(delivered) : i \in 1..Len(stream)
        /\ \A i \in 1..Len(readBuf) : Len(delivered) + i \in 1..Len(stream)
      BY <1>a, <1>b, <2>4 DEF ReadOK
  <2> QED
      BY <1>a, <2>1, <2>2, <2>3, <2>5, <2>6 DEF ReadOK
<1>2. ASSUME NEW r \in Readers, ReadBuffered(r) PROVE ReadOK'
  <2>1. UNCHANGED <<readSeq, records, stream>>
      BY <1>2 DEF ReadBuffered, ReturnFromRead, wvars
  <2>2. readBuf \in Seq(Byte) /\ Copy(r, readBuf)
      BY <1>2 DEF ReadBuffered, TypeOK, Byte
  <2>3. /\ Len(delivered') + Len(readBuf') = Len(delivered) + Len(readBuf)
        /\ Len(delivered') >= Len(delivered)
        /\ \A i \in 1..Len(delivered) : delivered'[i] = delivered[i]
        /\ \A i \in (Len(delivered) + 1)..Len(delivered') :
               delivered'[i] = readBuf[i - Len(delivered)]
        /\ \A i \in 1..Len(readBuf') :
               readBuf'[i] = readBuf[Len(delivered') - Len(delivered) + i]
      BY <2>2, CopyType
  <2>4. Len(delivered') \in Nat /\ Len(readBuf') \in Nat
      BY Lengths
  <2>5. ASSUME NEW i \in 1..Len(delivered') PROVE delivered'[i] = stream[i]
    <3>1. CASE i \in 1..Len(delivered)
        BY <2>3, <3>1 DEF ReadOK
    <3>2. CASE i \notin 1..Len(delivered)
      <4>1. /\ i \in (Len(delivered) + 1)..Len(delivered')
            /\ i - Len(delivered) \in 1..Len(readBuf)
            /\ Len(delivered) + (i - Len(delivered)) = i
          BY <1>a, <2>3, <2>4, <3>2
      <4> QED
          BY <2>3, <4>1 DEF ReadOK
    <3> QED
        BY <3>1, <3>2
  <2>6. ASSUME NEW i \in 1..Len(readBuf')
        PROVE  readBuf'[i] = stream[Len(delivered') + i]
    <3> DEFINE m == Len(delivered') - Len(delivered) + i
    <3>1. m \in 1..Len(readBuf) /\ Len(delivered) + m = Len(delivered') + i
        BY <1>a, <2>3, <2>4
    <3>2. readBuf'[i] = readBuf[m]
        BY <2>3
    <3> HIDE DEF m
    <3> QED
        BY <3>1, <3>2 DEF ReadOK
  <2>7. End(readSeq)' = End(readSeq)
      BY <2>1 DEF End
  <2> QED
      BY <1>a, <2>1, <2>3, <2>5, <2>6, <2>7 DEF ReadOK
<1>3. ASSUME NEW r \in Readers, ReadOpen(r) PROVE ReadOK'
  <2> DEFINE j == readSeq + 1
             p == Plaintext(j)
  <2>1. /\ j \in 1..Len(records)
        /\ Copy(r, p)
        /\ readSeq' = j
        /\ UNCHANGED <<records, stream>>
      BY <1>3, OpenFact DEF ReadOpen, ReturnFromRead, wvars
  <2>2. /\ p \in Seq(Byte)
        /\ Len(p) = records[j].len
        /\ \A i \in 1..records[j].len : p[i] = stream[records[j].lo + i]
      BY <2>1, PlaintextFact
  <2>3. records[j].lo = End(readSeq) /\ End(j) = End(readSeq) + records[j].len
      BY <1>a, <2>1 DEF RecordsOK, End
  <2>4. readBuf = <<>> /\ Len(readBuf) = 0
      BY <1>3 DEF ReadOpen, FrameArrived, ReaderOK
  <2>5. Len(delivered) = records[j].lo
      BY <1>a, <1>b, <2>3, <2>4 DEF ReadOK
  <2>6. /\ Len(delivered') + Len(readBuf') = Len(delivered) + Len(p)
        /\ Len(delivered') >= Len(delivered)
        /\ \A i \in 1..Len(delivered) : delivered'[i] = delivered[i]
        /\ \A i \in (Len(delivered) + 1)..Len(delivered') :
               delivered'[i] = p[i - Len(delivered)]
        /\ \A i \in 1..Len(readBuf') :
               readBuf'[i] = p[Len(delivered') - Len(delivered) + i]
      BY <2>1, <2>2, CopyType
  <2>7. /\ Len(delivered') \in Nat /\ Len(readBuf') \in Nat
        /\ Len(p) \in Nat
      BY <2>2, Lengths
  <2>8. \A i \in 1..Len(p) : p[i] = stream[Len(delivered) + i]
      BY <2>2, <2>5
  <2> HIDE DEF p
  <2>9. ASSUME NEW i \in 1..Len(delivered') PROVE delivered'[i] = stream[i]
    <3>1. CASE i \in 1..Len(delivered)
        BY <2>6, <3>1 DEF ReadOK
    <3>2. CASE i \notin 1..Len(delivered)
      <4>1. /\ i \in (Len(delivered) + 1)..Len(delivered')
            /\ i - Len(delivered) \in 1..Len(p)
            /\ Len(delivered) + (i - Len(delivered)) = i
          BY <1>a, <2>6, <2>7, <3>2
      <4> QED
          BY <2>6, <2>8, <4>1
    <3> QED
        BY <3>1, <3>2
  <2>10. ASSUME NEW i \in 1..Len(readBuf')
         PROVE  readBuf'[i] = stream[Len(delivered') + i]
    <3> DEFINE m == Len(delivered') - Len(delivered) + i
    <3>1. m \in 1..Len(p) /\ Len(delivered) + m = Len(delivered') + i
        BY <1>a, <2>6, <2>7
    <3>2. readBuf'[i] = p[m]
        BY <2>6
    <3> HIDE DEF m
    <3> QED
        BY <2>8, <3>1, <3>2
  <2>11. End(readSeq)' = End(j)
      BY <2>1 DEF End
  <2>12. Len(delivered') + Len(readBuf') = End(readSeq)' /\ j <= Len(records')
      BY <1>a, <2>1, <2>2, <2>3, <2>5, <2>6, <2>7, <2>11
  <2> QED
      BY <2>1, <2>9, <2>10, <2>12 DEF ReadOK
<1>4. CASE UNCHANGED <<writeSeq, records, stream, readSeq, readBuf, delivered>>
    BY <1>4 DEF ReadOK, End
<1>5. ASSUME NEW r \in Readers, ReadBuffered(r) \/ ReadOpen(r) PROVE ReadOK'
    BY <1>2, <1>3, <1>5
<1> QED
    BY <1>1, <1>4, <1>5, WhoChangesWhat

-----------------------------------------------------------------------------
\* A fresh Conn pair satisfies the invariant.
LEMMA InitInv == Init => Inv
<1> SUFFICES ASSUME Init PROVE Inv
    OBVIOUS
<1>1. TypeOK
  <2>1. <<>> \in Seq(Rec) /\ <<>> \in Seq(Byte) /\ <<>> \in Seq(Cells)
      BY EmptySeq
  <2> QED
    <3>1. WriterType
        BY <2>1, SizeAssumption DEF Init, WriterType
    <3>2. ConnType /\ FaultType
        BY <2>1 DEF Init, ConnType, FaultType
    <3>3. ReaderType
        BY <2>1, SizeAssumption DEF Init, ReaderType
    <3> QED
        BY <3>1, <3>2, <3>3, TypeParts
<1>2. RecordsOK /\ ReadOK
    BY DEF Init, RecordsOK, ReadOK, End
<1>3. WriterOK /\ ReaderOK
    BY ProcAssumption DEF Init, WriterOK, ReaderOK, InFrame
<1> QED
    BY <1>1, <1>2, <1>3 DEF Inv

\* Every step preserves it.
LEMMA NextInv == Inv /\ [Next]_vars => Inv'
<1> SUFFICES ASSUME Inv, [Next]_vars PROVE Inv'
    OBVIOUS
<1> USE DEF Inv
<1>1. TypeOK'
    BY TypeStep
<1>2. RecordsOK' /\ WriterOK' /\ ReaderOK'
    BY <1>1, RecordsOKStep, WriterOKStep, ReaderOKStep
<1>3. ReadOK'
    BY <1>1, ReadOKStep
<1> QED
    BY <1>1, <1>2, <1>3

\* So it always holds.
LEMMA Invariance == Spec => []Inv
BY InitInv, NextInv, PTL DEF Spec

\* Conn's fields and the locals of Read and Write keep their types: sequence
\* numbers never pass SeqMax, and Write never seals an empty record.
THEOREM TypeCorrect == Spec => []TypeOK
<1>1. Inv => TypeOK
    BY DEF Inv
<1> QED
    BY <1>1, Invariance, PTL

\* No two records are sealed under one nonce, whatever the sizes and however
\* many writers: writeMu and the exhaustion check suffice.
THEOREM NoncesNeverRepeat == Spec => []NonceUnique
<1>1. Inv => NonceUnique
    BY Lengths DEF Inv, RecordsOK, NonceUnique
<1> QED
    BY <1>1, Invariance, PTL

\* Read returns a prefix of what Write sealed, whatever the raw connection
\* corrupts, loses or repeats.
THEOREM DeliveryIsPrefix == Spec => []StreamPrefix
<1>1. Inv => StreamPrefix
  <2> SUFFICES ASSUME Inv PROVE StreamPrefix
      OBVIOUS
  <2>1. /\ Len(delivered) \in Nat /\ Len(readBuf) \in Nat
        /\ Len(stream) \in Nat /\ Len(records) \in Nat /\ readSeq \in Nat
      BY Lengths DEF Inv
  <2>2. End(readSeq) \in Nat /\ End(readSeq) <= Len(stream)
      BY <2>1, EndFact DEF Inv, RecordsOK, ReadOK, End
  <2>3. Len(delivered) \in 0..Len(stream)
      BY <2>1, <2>2 DEF Inv, ReadOK
  <2>4. stream \in Seq(Byte) /\ delivered \in Seq(Byte)
      BY TypeParts DEF Inv, WriterType, ReaderType
  <2>5. /\ SubSeq(stream, 1, Len(delivered)) \in Seq(Byte)
        /\ Len(SubSeq(stream, 1, Len(delivered))) = Len(delivered)
        /\ \A i \in 1..Len(delivered) :
               SubSeq(stream, 1, Len(delivered))[i] = stream[i]
      BY <2>3, <2>4, TakeFact
  <2>6. delivered = SubSeq(stream, 1, Len(delivered))
      BY <2>4, <2>5, SeqEqual DEF Inv, ReadOK
  <2> QED
      BY <2>1, <2>3, <2>6 DEF StreamPrefix
<1> QED
    BY <1>1, Invariance, PTL

-----------------------------------------------------------------------------
(***************************************************************************)
(* Torn frames.  StreamPrefix needs no knowledge of what is in transit; a  *)
(* torn frame stays unread because its last byte is never sent.            *)
(***************************************************************************)

\* Who is inside writeFrame, step by step.
LEMMA InFrameSteps ==
    ASSUME TypeOK, WriterOK, [Next]_vars
    PROVE  \/ \E w \in Writers : Seal(w) \/ WriteHeader(w) \/ WriteBody(w)
           \/ \E w \in Writers : WriteRefused(w) \/ WriteExpired(w)
           \/ Duplicate
           \/ /\ AnyInFrame' <=> AnyInFrame
              /\ UNCHANGED <<records, torn>>
              /\ \/ UNCHANGED wire
                 \/ \E r \in Readers : ReaderStep(r) \/ ReadExpired(r)
                 \/ Corrupt
                 \/ Lose
<1>a. WriterType
    BY TypeParts
<1>1. ASSUME NEW w \in Writers, WriteCall(w) \/ WriteLock(w) \/ WriteReturn(w)
      PROVE  (AnyInFrame' <=> AnyInFrame) /\ UNCHANGED <<records, torn, wire>>
    BY <1>1, <1>a DEF WriteCall, WriteLock, WriteReturn, AnyInFrame, InFrame,
                      WriterType
<1>2. ASSUME NEW r \in Readers, ReadCall(r) \/ ReadLock(r)
      PROVE  UNCHANGED <<wpc, records, torn, wire>>
    BY <1>2 DEF ReadCall, ReadLock, wvars
<1>3. ASSUME NEW r \in Readers, ReaderStep(r) \/ ReadExpired(r)
      PROVE  UNCHANGED <<wpc, records, torn>>
    BY <1>3 DEF ReaderStep, ReadBuffered, ReadHeader, ReadBadLength, ReadOpen,
                ReadCorrupted, ReadExhausted, ReadEOF, ReadClosed, ReadExpired,
                ReturnFromRead, ReadFails, wvars
<1>4. ASSUME CloseSender \/ CloseReceiver
      PROVE  UNCHANGED <<wpc, records, torn, wire>>
    BY <1>4 DEF CloseSender, CloseReceiver, wvars
<1>5. ASSUME Corrupt \/ Lose
      PROVE  UNCHANGED <<wpc, records, torn>>
    BY <1>5 DEF Corrupt, Lose, Damage, wvars
<1>6. ASSUME UNCHANGED wpc PROVE AnyInFrame' <=> AnyInFrame
    BY <1>6 DEF AnyInFrame, InFrame
<1>7. ASSUME UNCHANGED vars PROVE UNCHANGED <<wpc, records, torn, wire>>
    BY <1>7 DEF vars, wvars
<1> QED
    BY <1>1, <1>2, <1>3, <1>4, <1>5, <1>6, <1>7 DEF Next, WriterStep

\* Reading and damage leave in transit only cells that were there, and junk.
LEMMA WireShrinks ==
    ASSUME TypeOK,
           \/ \E r \in Readers : ReaderStep(r) \/ ReadExpired(r)
           \/ Corrupt
           \/ Lose
    PROVE  \A p \in 1..Len(wire') : \/ wire'[p] = Junk
                                    \/ \E q \in 1..Len(wire) : wire'[p] = wire[q]
<1>a. wire \in Seq(Cells) /\ Len(wire) \in Nat
    BY TypeParts, Lengths DEF ConnType
<1>1. ASSUME NEW n \in 0..Len(wire), wire' = Drop(wire, n)
      PROVE  \A p \in 1..Len(wire') :
                 \E q \in 1..Len(wire) : wire'[p] = wire[q]
  <2>1. /\ Len(wire') = Len(wire) - n
        /\ \A p \in 1..(Len(wire) - n) : wire'[p] = wire[n + p]
      BY <1>a, <1>1, DropFact
  <2>2. \A p \in 1..(Len(wire) - n) : n + p \in 1..Len(wire)
      BY <1>a
  <2> QED
      BY <2>1, <2>2
<1>2. ASSUME NEW r \in Readers, ReaderStep(r) \/ ReadExpired(r)
      PROVE  \/ wire' = wire
             \/ \E n \in 0..Len(wire) : wire' = Drop(wire, n)
  <2>1. HdrSize \in Nat /\ need \in Nat
      BY TypeParts, SizeAssumption DEF ReaderType
  <2>2. CASE ReadBuffered(r)
      BY <2>2 DEF ReadBuffered
  <2>3. CASE ReadHeader(r) \/ ReadBadLength(r)
      BY <1>a, <2>1, <2>3 DEF ReadHeader, ReadBadLength, ReadFails
  <2>4. CASE ReadOpen(r) \/ ReadCorrupted(r) \/ ReadExhausted(r)
      BY <1>a, <2>1, <2>4
      DEF ReadOpen, ReadCorrupted, ReadExhausted, ReadFails, FrameArrived
  <2>5. CASE ReadEOF(r) \/ ReadClosed(r)
      BY <1>a, <2>5 DEF ReadEOF, ReadClosed, ReadFails
  <2>6. CASE ReadExpired(r)
    <3>1. PICK n \in 0..Lesser(Len(wire), Wanted(r) - 1) :
              ReadFails(r, "timeout", n)
        BY <2>6 DEF ReadExpired
    <3>2. n \in 0..Len(wire)
        BY <1>a, <2>1, <3>1 DEF Lesser, Wanted
    <3> QED
        BY <3>1, <3>2 DEF ReadFails
  <2> QED
      BY <1>2, <2>2, <2>3, <2>4, <2>5, <2>6 DEF ReaderStep
<1>3. CASE Corrupt
  <2>1. PICK i \in 1..Len(wire) : wire' = [wire EXCEPT ![i] = Junk]
      BY <1>3 DEF Corrupt
  <2>2. /\ Len(wire') = Len(wire)
        /\ \A p \in 1..Len(wire) : wire'[p] = IF p = i THEN Junk ELSE wire[p]
      BY <1>a, <2>1
  <2> QED
      BY <2>2
<1>4. CASE Lose
  <2>1. PICK i \in 1..Len(wire) : wire' = SubSeq(wire, 1, i - 1) \o Drop(wire, i)
      BY <1>4 DEF Lose
  <2>a. i \in 0..Len(wire) /\ i - 1 \in 0..Len(wire)
      BY <1>a
  <2> DEFINE s == SubSeq(wire, 1, i - 1)
             t == Drop(wire, i)
  <2>2. /\ s \in Seq(Cells) /\ Len(s) = i - 1
        /\ \A p \in 1..(i - 1) : s[p] = wire[p]
      BY <1>a, <2>a, TakeFact
  <2>3. /\ t \in Seq(Cells) /\ Len(t) = Len(wire) - i
        /\ \A p \in 1..(Len(wire) - i) : t[p] = wire[i + p]
      BY <1>a, <2>a, DropFact
  <2>4. wire' = s \o t
      BY <2>1
  <2> HIDE DEF s, t
  <2>5. /\ Len(wire') = Len(wire) - 1
        /\ \A p \in 1..(i - 1) : wire'[p] = wire[p]
        /\ \A p \in 1..(Len(wire) - i) : wire'[(i - 1) + p] = wire[i + p]
    <3>1. /\ Len(wire') = Len(s) + Len(t)
          /\ \A p \in 1..Len(s) : wire'[p] = s[p]
          /\ \A p \in 1..Len(t) : wire'[Len(s) + p] = t[p]
      <4>1. s \in Seq(Cells) /\ t \in Seq(Cells)
          BY <2>2, <2>3
      <4>2. /\ Len(s \o t) = Len(s) + Len(t)
            /\ \A p \in 1..Len(s) : (s \o t)[p] = s[p]
            /\ \A p \in 1..Len(t) : (s \o t)[Len(s) + p] = t[p]
          BY <4>1, ConcatFact
      <4> QED
          BY <2>4, <4>2
    <3> QED
        BY <1>a, <2>a, <2>2, <2>3, <3>1
  <2>6. ASSUME NEW p \in 1..Len(wire')
        PROVE  \E q \in 1..Len(wire) : wire'[p] = wire[q]
    <3>1. CASE p \in 1..(i - 1)
        BY <1>a, <2>5, <3>1
    <3>2. CASE p \notin 1..(i - 1)
      <4>1. /\ p - (i - 1) \in 1..(Len(wire) - i)
            /\ (i - 1) + (p - (i - 1)) = p
            /\ i + (p - (i - 1)) \in 1..Len(wire)
          BY <1>a, <2>5, <3>2
      <4> QED
          BY <2>5, <4>1
    <3> QED
        BY <3>1, <3>2
  <2> QED
      BY <2>6
<1> QED
    BY <1>1, <1>2, <1>3, <1>4


\* CellOK in the next state, for a cell of either state.
CellOKNext(c) ==
    c[1] = "body" => /\ c[2] \in 1..Len(records')
                     /\ c[2] \in torn' => c[3] < records'[c[2]].len + Overhead
                     /\ AnyInFrame' => c[2] # Len(records')

\* WireOK in the next state, unfolded.
LEMMA WireOKNext ==
    (\A p \in 1..Len(wire') : CellOKNext(wire'[p])) => WireOK'
BY DEF WireOK, CellOK, CellOKNext, CtLen

\* When the connection grows by t, both parts have to be in order.
LEMMA WireGrows ==
    ASSUME TypeOK, WireOK, NEW t \in Seq(Cells), wire' = wire \o t,
           \A p \in 1..Len(wire) : CellOK(wire[p]) => CellOKNext(wire[p]),
           \A i \in 1..Len(t) : CellOKNext(t[i])
    PROVE  WireOK'
<1>a. wire \in Seq(Cells) /\ Len(wire) \in Nat /\ Len(t) \in Nat
    BY TypeParts, Lengths DEF ConnType
<1>1. /\ Len(wire') = Len(wire) + Len(t)
      /\ \A p \in 1..Len(wire) : wire'[p] = wire[p]
      /\ \A i \in 1..Len(t) : wire'[Len(wire) + i] = t[i]
    BY <1>a, ConcatFact
<1>2. ASSUME NEW p \in 1..Len(wire') PROVE CellOKNext(wire'[p])
  <2>1. CASE p \in 1..Len(wire)
      BY <1>1, <2>1 DEF WireOK
  <2>2. CASE p \notin 1..Len(wire)
    <3>1. p - Len(wire) \in 1..Len(t) /\ Len(wire) + (p - Len(wire)) = p
        BY <1>a, <1>1, <2>2
    <3> QED
        BY <1>1, <3>1
  <2> QED
      BY <2>1, <2>2
<1> QED
    BY <1>2, WireOKNext

\* At most one writer is inside writeFrame; when it leaves, nobody is.
LEMMA SoleWriter ==
    ASSUME TypeOK, WriterOK, NEW w \in Writers, InFrame(w),
           wpc' = [wpc EXCEPT ![w] = "loop"] \/ wpc' = [wpc EXCEPT ![w] = "idle"]
    PROVE  AnyInFrame /\ ~AnyInFrame'
<1>a. WriterType
    BY TypeParts
<1>1. AnyInFrame
    BY DEF AnyInFrame
<1>2. ASSUME NEW v \in Writers, InFrame(v) PROVE v = w
    BY <1>2 DEF WriterOK, InFrame
<1>3. \A v \in Writers : wpc'[v] \notin {"header", "body"}
    BY <1>a, <1>2 DEF WriterType, InFrame
<1> QED
    BY <1>1, <1>3 DEF AnyInFrame, InFrame

\* The cells of a header are no body cells.
LEMMA HdrCells ==
    ASSUME NEW n \in Nat
    PROVE  \A i \in 1..HdrSize : Hdr(n)[i][1] = "hdr" /\ CellOKNext(Hdr(n)[i])
BY SizeAssumption DEF Hdr, CellOKNext

\* No step puts the last cell of a torn or unfinished record in transit.
LEMMA WireOKStep ==
    ASSUME Inv, WireOK, TornOK, TypeOK', [Next]_vars
    PROVE  WireOK'
<1>a. TypeOK /\ WriterOK /\ RecordsOK /\ WriterType /\ ConnType
    BY TypeParts DEF Inv
<1>b. Len(records) \in Nat /\ Len(wire) \in Nat
    BY <1>a, Lengths
<1>1. ASSUME NEW w \in Writers, Seal(w) PROVE WireOK'
  <2>1. /\ Len(records') = Len(records) + 1
        /\ \A j \in 1..Len(records) : records'[j] = records[j]
        /\ wire' = wire /\ torn' = torn
      BY <1>1, <1>a, SealFact DEF Seal
  <2>2. ASSUME NEW c, CellOK(c) PROVE CellOKNext(c)
      BY <1>b, <2>1, <2>2 DEF CellOK, CellOKNext, CtLen
  <2> QED
      BY <2>1, <2>2, WireOKNext DEF WireOK
<1>2. ASSUME NEW w \in Writers, WriteHeader(w) PROVE WireOK'
  <2>1. InFrame(w) /\ AnyInFrame
      BY <1>2 DEF WriteHeader, InFrame, AnyInFrame
  <2>2. CtLen(Len(records)) \in Nat
      BY <1>a, <2>1, OutgoingFact, BodyFact
  <2>3. /\ wire' = wire \o Hdr(CtLen(Len(records)))
        /\ UNCHANGED <<records, torn>>
      BY <1>2 DEF WriteHeader
  <2>4. ASSUME NEW c, CellOK(c) PROVE CellOKNext(c)
      BY <2>1, <2>3, <2>4 DEF CellOK, CellOKNext, CtLen
  <2> QED
      BY <1>a, <2>2, <2>3, <2>4, HdrFact, HdrCells, WireGrows
<1>3. ASSUME NEW w \in Writers, WriteBody(w) PROVE WireOK'
  <2>1. /\ InFrame(w)
        /\ wpc' = [wpc EXCEPT ![w] = "loop"]
        /\ wire' = wire \o Body(Len(records))
        /\ UNCHANGED <<records, torn>>
      BY <1>3 DEF WriteBody, InFrame
  <2>2. AnyInFrame /\ ~AnyInFrame'
      BY <1>a, <2>1, SoleWriter
  <2>3. Len(records) \in 1..Len(records) /\ Len(records) \notin torn
      BY <1>a, <2>1, <2>2, OutgoingFact DEF TornOK
  <2>4. /\ Body(Len(records)) \in Seq(Cells)
        /\ Len(Body(Len(records))) = CtLen(Len(records))
        /\ \A i \in 1..CtLen(Len(records)) :
               Body(Len(records))[i] = <<"body", Len(records), i>>
      BY <1>a, <2>3, BodyFact
  <2>5. ASSUME NEW i \in 1..Len(Body(Len(records)))
        PROVE  CellOKNext(Body(Len(records))[i])
      BY <2>1, <2>2, <2>3, <2>4 DEF CellOKNext
  <2>6. ASSUME NEW c, CellOK(c) PROVE CellOKNext(c)
      BY <2>1, <2>2, <2>6 DEF CellOK, CellOKNext, CtLen
  <2> QED
      BY <1>a, <2>1, <2>4, <2>5, <2>6, WireGrows
<1>4. ASSUME NEW w \in Writers, WriteRefused(w) \/ WriteExpired(w)
      PROVE  WireOK'
  <2>1. InFrame(w)
      BY <1>4 DEF WriteRefused, WriteExpired, InFrame
  <2>2. /\ Len(records) \in 1..Len(records)
        /\ Outgoing(w) \in Seq(Cells)
        /\ Len(Outgoing(w)) \in Nat \ {0}
      BY <1>a, <2>1, OutgoingFact
  <2>3. RefusedAt(w) \subseteq 0..(Len(Outgoing(w)) - 1)
      BY <2>2 DEF RefusedAt
  <2>4. PICK k \in 0..(Len(Outgoing(w)) - 1) : AbandonFrame(w, k)
      BY <1>4, <2>3 DEF WriteRefused, WriteExpired
  <2>5. /\ wire' = wire \o SubSeq(Outgoing(w), 1, k)
        /\ torn' = torn \cup {Len(records)}
        /\ records' = records
        /\ wpc' = [wpc EXCEPT ![w] = "idle"]
      BY <2>4 DEF AbandonFrame
  <2>6. AnyInFrame /\ ~AnyInFrame'
      BY <1>a, <2>1, <2>5, SoleWriter
  <2>7. ASSUME NEW c, CellOK(c) PROVE CellOKNext(c)
      BY <2>5, <2>6, <2>7 DEF CellOK, CellOKNext, CtLen
  <2>8. /\ SubSeq(Outgoing(w), 1, k) \in Seq(Cells)
        /\ Len(SubSeq(Outgoing(w), 1, k)) = k
        /\ \A i \in 1..k : SubSeq(Outgoing(w), 1, k)[i] = Outgoing(w)[i]
    <3>1. k \in 0..Len(Outgoing(w))
        BY <2>2
    <3> QED
        BY <2>2, <3>1, TakeFact
  <2>9. ASSUME NEW i \in 1..k PROVE CellOKNext(Outgoing(w)[i])
    <3>1. CtLen(Len(records)) \in Nat
        BY <1>a, <2>2, BodyFact
    <3>2. i \in 1..Len(Outgoing(w)) /\ i < Len(Outgoing(w))
        BY <2>2
    <3>3. CASE wpc[w] = "header"
      <4>1. Outgoing(w) = Hdr(CtLen(Len(records)))
          BY <3>3 DEF Outgoing
      <4> QED
          BY <3>1, <3>2, <4>1, HdrFact, HdrCells
    <3>4. CASE wpc[w] # "header"
      <4>1. Outgoing(w) = Body(Len(records))
          BY <3>4 DEF Outgoing
      <4>2. /\ Len(Outgoing(w)) = CtLen(Len(records))
            /\ Outgoing(w)[i] = <<"body", Len(records), i>>
          BY <1>a, <2>2, <3>2, <4>1, BodyFact
      <4>3. i < records'[Len(records)].len + Overhead
          BY <2>5, <3>2, <4>2 DEF CtLen
      <4> QED
          BY <2>2, <2>5, <2>6, <4>2, <4>3 DEF CellOKNext
    <3> QED
        BY <3>3, <3>4
  <2> QED
      BY <1>a, <2>5, <2>7, <2>8, <2>9, WireGrows
<1>5. CASE Duplicate
  <2>1. PICK j \in Framed : wire' = wire \o Hdr(CtLen(j)) \o Body(j)
      BY <1>5 DEF Duplicate
  <2>2. UNCHANGED <<records, torn, wpc>>
      BY <1>5 DEF Duplicate, Damage, wvars
  <2>3. AnyInFrame' <=> AnyInFrame
      BY <2>2 DEF AnyInFrame, InFrame
  <2>4. /\ j \in 1..Len(records) /\ j \notin torn
        /\ AnyInFrame => j # Len(records)
      BY DEF Framed, AnyInFrame, InFrame
  <2>5. /\ CtLen(j) \in Nat
        /\ Body(j) \in Seq(Cells)
        /\ Len(Body(j)) = CtLen(j)
        /\ \A i \in 1..CtLen(j) : Body(j)[i] = <<"body", j, i>>
      BY <1>a, <2>4, BodyFact
  <2>6. /\ Hdr(CtLen(j)) \in Seq(Cells)
        /\ Len(Hdr(CtLen(j))) = HdrSize
      BY <2>5, HdrFact
  <2> DEFINE t == Hdr(CtLen(j)) \o Body(j)
  <2>7. /\ t \in Seq(Cells)
        /\ Len(t) = HdrSize + CtLen(j)
        /\ \A i \in 1..HdrSize : t[i] = Hdr(CtLen(j))[i]
        /\ \A i \in 1..CtLen(j) : t[HdrSize + i] = Body(j)[i]
    <3> DEFINE h == Hdr(CtLen(j))
    <3>1. h \in Seq(Cells) /\ Body(j) \in Seq(Cells)
        BY <2>5, <2>6
    <3> HIDE DEF h
    <3>2. /\ h \o Body(j) \in Seq(Cells)
          /\ Len(h \o Body(j)) = Len(h) + Len(Body(j))
          /\ \A i \in 1..Len(h) : (h \o Body(j))[i] = h[i]
          /\ \A i \in 1..Len(Body(j)) : (h \o Body(j))[Len(h) + i] = Body(j)[i]
        BY <3>1, ConcatFact
    <3> QED
        BY <2>5, <2>6, <3>2 DEF h
  <2>8. wire' = wire \o t
    <3> DEFINE h == Hdr(CtLen(j))
               b == Body(j)
    <3>1. wire \in Seq(Cells) /\ h \in Seq(Cells) /\ b \in Seq(Cells)
        BY <1>a, <2>5, <2>6 DEF ConnType
    <3>2. wire' = (wire \o h) \o b
        BY <2>1
    <3> HIDE DEF h, b
    <3>3. (wire \o h) \o b = wire \o (h \o b)
        BY <3>1, ConcatAssociative
    <3> QED
        BY <3>2, <3>3 DEF h, b
  <2> HIDE DEF t
  <2>9. ASSUME NEW i \in 1..Len(t) PROVE CellOKNext(t[i])
    <3>1. CASE i \in 1..HdrSize
        BY <2>5, <2>7, <3>1, HdrCells
    <3>2. CASE i \notin 1..HdrSize
      <4>1. /\ i - HdrSize \in 1..CtLen(j)
            /\ HdrSize + (i - HdrSize) = i
          BY <2>5, <2>7, <3>2, SizeAssumption
      <4>2. t[i] = <<"body", j, i - HdrSize>>
          BY <2>5, <2>7, <4>1
      <4> QED
          BY <2>2, <2>3, <2>4, <4>2 DEF CellOKNext
    <3> QED
        BY <3>1, <3>2
  <2>10. ASSUME NEW c, CellOK(c) PROVE CellOKNext(c)
      BY <2>2, <2>3, <2>10 DEF CellOK, CellOKNext, CtLen
  <2> QED
      BY <1>a, <2>7, <2>8, <2>9, <2>10, WireGrows
<1>6. ASSUME AnyInFrame' <=> AnyInFrame, UNCHANGED <<records, torn>>,
             \A p \in 1..Len(wire') : \/ wire'[p] = Junk
                                      \/ \E q \in 1..Len(wire) : wire'[p] = wire[q]
      PROVE  WireOK'
  <2>1. ASSUME NEW c, CellOK(c) PROVE CellOKNext(c)
      BY <1>6, <2>1 DEF CellOK, CellOKNext, CtLen
  <2>2. CellOKNext(Junk)
      BY DEF CellOKNext, Junk
  <2> QED
      BY <1>6, <2>1, <2>2, WireOKNext DEF WireOK
<1>7. ASSUME wire' = wire
      PROVE  \A p \in 1..Len(wire') : \E q \in 1..Len(wire) : wire'[p] = wire[q]
    BY <1>7
<1> QED
    BY <1>a, <1>1, <1>2, <1>3, <1>4, <1>5, <1>6, <1>7, InFrameSteps, WireShrinks

\* A torn record stays unread, and so does the record being written.
LEMMA TornOKStep ==
    ASSUME Inv, WireOK, TornOK, TypeOK', [Next]_vars
    PROVE  TornOK'
<1>a. TypeOK /\ WriterOK /\ RecordsOK /\ ReadOK /\ WriterType
    BY TypeParts DEF Inv
<1>b. Len(records) \in Nat /\ readSeq \in Nat
    BY <1>a, Lengths
<1>1. ASSUME NEW w \in Writers, Seal(w) PROVE TornOK'
  <2>1. /\ Len(records') = Len(records) + 1
        /\ UNCHANGED <<torn, readSeq>>
      BY <1>1, <1>a, SealFact DEF Seal, rvars
  <2>2. torn \subseteq 1..Len(records) /\ readSeq <= Len(records)
      BY <1>a DEF WriterType, ReadOK
  <2> QED
      BY <1>b, <2>1, <2>2 DEF TornOK
<1>2. ASSUME NEW w \in Writers, WriteHeader(w) \/ WriteBody(w) PROVE TornOK'
  <2>1. AnyInFrame
      BY <1>2 DEF WriteHeader, WriteBody, AnyInFrame, InFrame
  <2>2. UNCHANGED <<torn, readSeq, records>>
      BY <1>2 DEF WriteHeader, WriteBody, rvars
  <2> QED
      BY <2>1, <2>2 DEF TornOK
<1>3. ASSUME NEW w \in Writers, WriteRefused(w) \/ WriteExpired(w)
      PROVE  TornOK'
  <2>1. InFrame(w) /\ \E k : AbandonFrame(w, k)
      BY <1>3 DEF WriteRefused, WriteExpired, InFrame
  <2>2. /\ torn' = torn \cup {Len(records)}
        /\ wpc' = [wpc EXCEPT ![w] = "idle"]
        /\ readSeq' = readSeq
      BY <2>1 DEF AbandonFrame, rvars
  <2>3. AnyInFrame /\ ~AnyInFrame'
      BY <1>a, <2>1, <2>2, SoleWriter
  <2> QED
      BY <2>2, <2>3 DEF TornOK
<1>4. ASSUME NEW r \in Readers, ReadOpen(r) PROVE TornOK'
  <2> DEFINE j == readSeq + 1
  <2>1. /\ j \in 1..Len(records)
        /\ SubSeq(wire, 1, need) = Body(j)
        /\ readSeq' = j
        /\ UNCHANGED <<torn, records, wpc>>
      BY <1>4, <1>a, OpenFact DEF ReadOpen, ReturnFromRead, wvars
  <2>2. /\ CtLen(j) \in Nat \ {0}
        /\ Len(Body(j)) = CtLen(j)
        /\ Body(j)[CtLen(j)] = <<"body", j, CtLen(j)>>
      BY <1>a, <2>1, BodyFact
  <2>3. /\ wire \in Seq(Cells) /\ Len(wire) \in Nat /\ need \in Nat
        /\ need <= Len(wire)
      BY <1>4, <1>a, TypeParts, Lengths
      DEF ConnType, ReaderType, ReadOpen, FrameArrived
  <2>4. /\ Len(SubSeq(wire, 1, need)) = need
        /\ \A i \in 1..need : SubSeq(wire, 1, need)[i] = wire[i]
      BY <2>3, TakeFact
  <2>5. need = CtLen(j) /\ wire[CtLen(j)] = <<"body", j, CtLen(j)>>
    <3>1. need = CtLen(j)
        BY <2>1, <2>2, <2>4
    <3>2. wire[need] = SubSeq(wire, 1, need)[need]
        BY <2>2, <2>4, <3>1
    <3> QED
        BY <2>1, <2>2, <3>1, <3>2
  <2>6. CellOK(wire[CtLen(j)])
      BY <2>2, <2>3, <2>5, SMTT(30) DEF WireOK
  <2> HIDE DEF j
  <2>7. j \notin torn /\ (AnyInFrame => j # Len(records))
      BY <2>2, <2>5, <2>6 DEF CellOK
  <2>8. AnyInFrame' <=> AnyInFrame
      BY <2>1 DEF AnyInFrame, InFrame
  <2>9. torn \subseteq Int
      BY <1>a, <1>b DEF WriterType
  <2>10. \A t \in torn : readSeq < t => j <= t
      BY <1>b, <2>9 DEF j
  <2>11. \A t \in torn : j < t
      BY <2>1, <2>7, <2>9, <2>10 DEF TornOK
  <2>12. AnyInFrame => j < Len(records)
      BY <1>b, <2>1, <2>7
  <2> QED
      BY <2>1, <2>8, <2>11, <2>12 DEF TornOK
<1>5. ASSUME AnyInFrame' <=> AnyInFrame, UNCHANGED <<records, torn, readSeq>>
      PROVE  TornOK'
    BY <1>5 DEF TornOK
<1>6. ASSUME NEW r \in Readers, ReadBuffered(r) PROVE readSeq' = readSeq
    BY <1>6 DEF ReadBuffered
<1>7. ASSUME Duplicate
      PROVE  (AnyInFrame' <=> AnyInFrame) /\ UNCHANGED <<records, torn>>
    BY <1>7 DEF Duplicate, Damage, wvars, AnyInFrame, InFrame
<1> QED
    BY <1>a, <1>1, <1>2, <1>3, <1>4, <1>5, <1>6, <1>7, InFrameSteps,
       WhoChangesWhat

\* The invariant with what is in transit.
LEMMA FullInvariance == Spec => []IInv
<1>1. Init => IInv
    BY InitInv DEF Init, IInv, WireOK, TornOK, AnyInFrame, InFrame
<1>2. IInv /\ [Next]_vars => IInv'
    BY NextInv, WireOKStep, TornOKStep DEF IInv, Inv
<1> QED
    BY <1>1, <1>2, PTL DEF Spec

\* The reader never gets past the failed writes.
LEMMA BeforeTorn ==
    ASSUME IInv, NEW t \in 1..Len(records), readSeq < t
    PROVE  /\ Len(delivered) + Len(readBuf) <= records[t].lo
           /\ records[t].lo \in Len(delivered)..Len(stream)
<1>1. TypeOK /\ RecordsOK /\ ReadOK /\ WriterType
    BY TypeParts DEF IInv, Inv
<1>2. /\ Len(records) \in Nat /\ readSeq \in Nat
      /\ Len(delivered) \in Nat /\ Len(readBuf) \in Nat /\ Len(stream) \in Nat
    BY <1>1, Lengths
<1>3. records[t] \in Rec
    BY <1>1, ElementOfSeq DEF WriterType
<1>4. End(readSeq) <= records[t].lo
    BY <1>1, <1>2, <1>3 DEF RecordsOK, End, Rec
<1>5. records[t].lo <= Len(stream)
  <2>1. records[t].lo + records[t].len <= Len(stream)
      BY <1>1 DEF RecordsOK, End
  <2> QED
      BY <1>2, <1>3, <2>1 DEF Rec
<1> QED
    BY <1>1, <1>2, <1>3, <1>4, <1>5 DEF ReadOK, Rec

\* A torn record bounds what has been read.
LEMMA TornStopsFollows == IInv => TornStops
<1> SUFFICES ASSUME IInv, NEW t \in torn
             PROVE  Len(delivered) + Len(readBuf) <= records[t].lo
    BY DEF TornStops
<1>1. t \in 1..Len(records) /\ readSeq < t
    BY TypeParts DEF IInv, Inv, TornOK, WriterType
<1> QED
    BY <1>1, BeforeTorn

\* A chunk whose frame failed is never read, nor is anything after it.
THEOREM TornFrameEndsStream == Spec => []TornStops
BY FullInvariance, TornStopsFollows, PTL

-----------------------------------------------------------------------------
(***************************************************************************)
(* The channel implements the byte stream.                                 *)
(***************************************************************************)

\* One sequence extends another when it agrees with it at every position.
LEMMA ExtendsFact ==
    ASSUME NEW S, NEW s \in Seq(S), NEW t \in Seq(S), Len(s) <= Len(t),
           \A i \in 1..Len(s) : t[i] = s[i]
    PROVE  Stream!Extends(s, t)
<1>1. Len(s) \in 0..Len(t)
    BY LenProperties
<1>2. /\ SubSeq(t, 1, Len(s)) \in Seq(S)
      /\ Len(SubSeq(t, 1, Len(s))) = Len(s)
      /\ \A i \in 1..Len(s) : SubSeq(t, 1, Len(s))[i] = t[i]
    BY <1>1, TakeFact
<1>3. s = SubSeq(t, 1, Len(s))
    BY <1>2, SeqEqual
<1> QED
    BY <1>3 DEF Stream!Extends

\* Delivering more of the stream is a Deliver step.
LEMMA DeliverStep ==
    ASSUME IInv, IInv', UNCHANGED <<stream, records, torn>>,
           Stream!Extends(delivered, delivered')
    PROVE  Stream!Deliver
<1>1. Stream!Extends(delivered', stream')
  <2>1. TypeOK' /\ RecordsOK' /\ ReadOK'
      BY DEF IInv, Inv
  <2>2. stream' \in Seq(Byte) /\ delivered' \in Seq(Byte)
      BY <2>1, TypeParts DEF WriterType, ReaderType
  <2>3. /\ Len(delivered') \in Nat /\ Len(readBuf') \in Nat
        /\ Len(stream') \in Nat /\ Len(records') \in Nat /\ readSeq' \in Nat
      BY <2>1, Lengths
  <2>4. End(readSeq)' <= Len(stream')
      BY <2>1, <2>3 DEF RecordsOK, ReadOK, End
  <2>5. Len(delivered') <= Len(stream')
      BY <2>1, <2>3, <2>4 DEF ReadOK
  <2>6. \A i \in 1..Len(delivered') : stream'[i] = delivered'[i]
      BY <2>1 DEF ReadOK
  <2> QED
      BY <2>2, <2>5, <2>6, ExtendsFact
<1>2. \A t \in torn' : Len(delivered') <= records'[t].lo
  <2>1. TornStops'
      BY TornStopsFollows, PTL
  <2>2. TypeOK' /\ WriterType'
      BY TypeParts DEF IInv, Inv
  <2>3. Len(delivered') \in Nat /\ Len(readBuf') \in Nat
      BY <2>2, Lengths
  <2> TAKE t \in torn'
  <2>4. records'[t] \in Rec
      BY <2>2, ElementOfSeq DEF WriterType
  <2> QED
      BY <2>1, <2>3, <2>4 DEF TornStops, Rec
<1> QED
    BY <1>1, <1>2 DEF Stream!Deliver

\* Every step of the channel is a step of the byte stream, or a stutter.
LEMMA StreamStep ==
    ASSUME IInv, IInv', [Next]_vars
    PROVE  [Stream!Next]_(Stream!vars)
<1>a. TypeOK /\ WriterOK /\ RecordsOK /\ WriterType /\ ReaderType
    BY TypeParts DEF IInv, Inv
<1>b. stream' \in Seq(Byte) /\ delivered' \in Seq(Byte)
    BY TypeParts DEF IInv, Inv, WriterType, ReaderType
<1>1. ASSUME NEW w \in Writers, Seal(w) PROVE Stream!Send
  <2>1. /\ \A i \in 1..Len(stream) : stream'[i] = stream[i]
        /\ \A j \in 1..Len(records) : records'[j] = records[j]
        /\ UNCHANGED <<delivered, torn>>
      BY <1>1, <1>a, SealFact DEF Seal, rvars
  <2>2. Len(stream) <= Len(stream')
    <3>1. PICK n \in Nat : Len(stream') = Len(stream) + n
        BY <1>1, <1>a, SealFact
    <3> QED
        BY <1>a, <3>1, Lengths
  <2>3. Stream!Extends(stream, stream')
      BY <1>a, <1>b, <2>1, <2>2, ExtendsFact DEF WriterType
  <2>4. {records'[t].lo : t \in torn'} = {records[t].lo : t \in torn}
      BY <1>a, <2>1 DEF WriterType
  <2> QED
      BY <2>1, <2>3, <2>4 DEF Stream!Send
<1>2. ASSUME NEW w \in Writers, WriteRefused(w) \/ WriteExpired(w)
      PROVE  Stream!Fail
  <2>1. InFrame(w) /\ \E k : AbandonFrame(w, k)
      BY <1>2 DEF WriteRefused, WriteExpired, InFrame
  <2>2. /\ torn' = torn \cup {Len(records)}
        /\ UNCHANGED <<records, stream, delivered>>
      BY <2>1 DEF AbandonFrame, rvars
  <2>3. Len(records) \in 1..Len(records) /\ readSeq < Len(records)
      BY <1>a, <2>1, OutgoingFact DEF IInv, TornOK, AnyInFrame
  <2>4. records[Len(records)].lo \in Len(delivered)..Len(stream)
      BY <2>3, BeforeTorn
  <2>5. {records'[t].lo : t \in torn'}
            = {records[t].lo : t \in torn} \cup {records[Len(records)].lo}
      BY <2>2
  <2> QED
      BY <2>2, <2>4, <2>5 DEF Stream!Fail
<1>3. ASSUME NEW r \in Readers, ReadBuffered(r) \/ ReadOpen(r)
      PROVE  Stream!Deliver
  <2>1. UNCHANGED <<stream, records, torn>>
      BY <1>3 DEF ReadBuffered, ReadOpen, ReturnFromRead, wvars
  <2>2. PICK p \in Seq(Byte) : Copy(r, p)
    <3>1. CASE ReadBuffered(r)
        BY <1>a, <3>1 DEF ReadBuffered, ReaderType
    <3>2. CASE ReadOpen(r)
        BY <1>a, <3>2, OpenFact, PlaintextFact
    <3> QED
        BY <1>3, <3>1, <3>2
  <2>3. /\ Len(delivered) <= Len(delivered')
        /\ \A i \in 1..Len(delivered) : delivered'[i] = delivered[i]
      BY <1>a, <2>2, CopyType, Lengths DEF IInv, Inv
  <2>4. Stream!Extends(delivered, delivered')
      BY <1>a, <1>b, <2>3, ExtendsFact DEF ReaderType
  <2> QED
      BY <2>1, <2>4, DeliverStep
<1>4. ASSUME UNCHANGED <<stream, records, torn, delivered>>
      PROVE  UNCHANGED Stream!vars
    BY <1>4 DEF Stream!vars
<1>5. ASSUME NEW w \in Writers, WriteHeader(w) \/ WriteBody(w)
      PROVE  UNCHANGED <<stream, records, torn, delivered>>
    BY <1>5 DEF WriteHeader, WriteBody, rvars
<1>6. ASSUME Duplicate
      PROVE  UNCHANGED <<stream, records, torn, delivered>>
    BY <1>6 DEF Duplicate, Damage, wvars, rvars
<1> QED
    BY <1>a, <1>1, <1>2, <1>3, <1>4, <1>5, <1>6, InFrameSteps, WhoChangesWhat
    DEF Stream!Next

\* One direction of a Conn pair is a byte stream: in order, without gaps or
\* repetitions, and never past a failed write.
THEOREM ChannelImplementsByteStream == Spec => ImplementsByteStream
<1>1. Init => Stream!Init
    BY DEF Init, Stream!Init
<1>2. IInv /\ IInv' /\ [Next]_vars => [Stream!Next]_(Stream!vars)
    BY StreamStep
<1> QED
    BY <1>1, <1>2, FullInvariance, PTL
    DEF Spec, ImplementsByteStream, Stream!Spec

-----------------------------------------------------------------------------
(***************************************************************************)
(* Calls of Write do not interleave.                                       *)
(***************************************************************************)

\* Bytes of its buffer a writer past Lock has sealed.
Sealed(w) == written[w] + (IF InFrame(w) THEN records[Len(records)].len ELSE 0)

\* Calls in progress have numbers of their own, one that waits for the mutex has
\* sealed nothing, and the bytes of the one that holds it end the stream.
CallsOK ==
    /\ \A w \in Writers : wcall[w] <= writes
    /\ \A i \in 1..Len(stream) : stream[i][1] <= writes
    /\ \A v, w \in Writers :
          wpc[v] # "idle" /\ wpc[w] # "idle" /\ wcall[v] = wcall[w] => v = w
    /\ \A w \in Writers : wpc[w] = "lock" =>
          written[w] = 0 /\ \A i \in 1..Len(stream) : stream[i][1] # wcall[w]
    /\ \A w \in Writers : wpc[w] \in {"loop", "header", "body"} =>
          \A i \in 1..Len(stream) : stream[i][1] = wcall[w] =>
              stream[i][2] = Sealed(w) - (Len(stream) - i)

\* Seal appends the next bytes of the caller's buffer.
LEMMA SealBytes ==
    ASSUME TypeOK, RecordsOK, NEW w \in Writers, Seal(w)
    PROVE  \A k \in 1..records'[Len(records) + 1].len :
               stream'[Len(stream) + k] = <<wcall[w], written[w] + k>>
<1> DEFINE n == ChunkLen(w)
           rec == [nonce |-> writeSeq, lo |-> Len(stream), len |-> n]
           chunk == [i \in 1..n |-> <<wcall[w], written[w] + i>>]
<1>a. WriterType
    BY TypeParts
<1>1. n \in Nat \ {0}
    BY ChunkFact DEF Seal
<1>2. rec \in Rec /\ rec.len = n
    BY <1>a, <1>1 DEF WriterType, Rec
<1>3. chunk \in [1..n -> Byte] /\ \A k \in 1..n : chunk[k] = <<wcall[w], written[w] + k>>
    BY <1>a, <1>1, SMTT(30) DEF WriterType, Byte
<1>4. chunk \in Seq(Byte) /\ Len(chunk) = n
    BY <1>1, <1>3, TableFact
<1>5. records' = Append(records, rec) /\ stream' = stream \o chunk
    BY DEF Seal
<1> HIDE DEF n, rec, chunk
<1>6. records'[Len(records) + 1].len = n
    BY <1>a, <1>2, <1>5, AppendProperties DEF WriterType
<1>7. \A k \in 1..n : stream'[Len(stream) + k] = chunk[k]
    BY <1>a, <1>4, <1>5, ConcatFact DEF WriterType
<1> QED
    BY <1>3, <1>6, <1>7

\* The bytes of the stream are pairs of numbers.
LEMMA StreamByte ==
    ASSUME TypeOK, NEW i \in 1..Len(stream)
    PROVE  stream[i][1] \in Nat /\ stream[i][2] \in Nat
<1>1. stream \in Seq(Byte)
    BY TypeParts DEF WriterType
<1>2. stream[i] \in Byte
    BY <1>1, ElementOfSeq
<1> QED
    BY <1>2 DEF Byte

\* Sealing a chunk continues the call of the writer that holds the mutex.
LEMMA CallsOKSeal ==
    ASSUME TypeOK, TypeOK', RecordsOK, WriterOK, CallsOK,
           NEW w \in Writers, Seal(w)
    PROVE  CallsOK'
<1>a. WriterType
    BY TypeParts
<1> DEFINE n == records'[Len(records) + 1].len
<1>1. /\ Len(records') = Len(records) + 1
      /\ n \in Nat \ {0}
      /\ Len(stream') = Len(stream) + n
      /\ \A i \in 1..Len(stream) : stream'[i] = stream[i]
      /\ \A k \in 1..n : stream'[Len(stream) + k] = <<wcall[w], written[w] + k>>
    BY SealFact, SealBytes
<1> HIDE DEF n
<1>2. /\ wpc[w] = "loop" /\ wpc' = [wpc EXCEPT ![w] = "header"]
      /\ UNCHANGED <<written, wcall, writes>>
    BY DEF Seal
<1>3. Len(stream) \in Nat /\ writes \in Nat /\ written[w] \in Nat
      /\ wcall[w] \in Nat
    BY <1>a, Lengths DEF WriterType
<1>4. \A v \in Writers : v # w => wpc[v] \in {"idle", "lock"}
    BY <1>2, <1>a DEF WriterOK, WriterType
<1>5. \A i \in 1..Len(stream') :
          \/ i \in 1..Len(stream) /\ stream'[i] = stream[i]
          \/ \E k \in 1..n : /\ i = Len(stream) + k
                             /\ stream'[i] = <<wcall[w], written[w] + k>>
  <2> TAKE i \in 1..Len(stream')
  <2>1. CASE i <= Len(stream)
      BY <1>1, <1>3, <2>1
  <2>2. CASE i > Len(stream)
    <3>1. i - Len(stream) \in 1..n /\ i = Len(stream) + (i - Len(stream))
        BY <1>1, <1>3, <2>2
    <3> QED
        BY <1>1, <3>1
  <2> QED
      BY <1>3, <2>1, <2>2
<1>6. \A i \in 1..Len(stream') :
          \/ i \in 1..Len(stream) /\ stream'[i][1] = stream[i][1]
          \/ stream'[i][1] = wcall[w]
    BY <1>5, SMTT(30)
<1>11. \A i \in 1..Len(stream') : stream'[i][1] <= writes'
    BY <1>2, <1>6 DEF CallsOK
<1>7. \A u, v \in Writers :
          wpc'[u] # "idle" /\ wpc'[v] # "idle" /\ wcall'[u] = wcall'[v] => u = v
    BY <1>2, <1>a DEF CallsOK, WriterType
<1>8. ASSUME NEW v \in Writers, wpc'[v] = "lock"
      PROVE  written'[v] = 0 /\ \A i \in 1..Len(stream') : stream'[i][1] # wcall'[v]
  <2>1. v # w /\ wpc[v] = "lock"
      BY <1>2, <1>8, <1>a DEF WriterType
  <2>2. wcall[v] # wcall[w]
      BY <1>2, <2>1 DEF CallsOK
  <2> QED
      BY <1>2, <1>6, <2>1, <2>2 DEF CallsOK
<1>9. ASSUME NEW v \in Writers, wpc'[v] \in {"loop", "header", "body"},
             NEW i \in 1..Len(stream'), stream'[i][1] = wcall'[v]
      PROVE  stream'[i][2] = Sealed(v)' - (Len(stream') - i)
  <2>1. v = w /\ wpc'[w] = "header"
      BY <1>2, <1>4, <1>9, <1>a DEF WriterType
  <2>2. Sealed(v)' = written[w] + n
      BY <1>1, <1>2, <2>1 DEF Sealed, InFrame, n
  <2>3. CASE i \in 1..Len(stream) /\ stream'[i] = stream[i]
    <3>1. stream[i][2] = Sealed(w) - (Len(stream) - i)
        BY <1>2, <1>9, <2>1, <2>3 DEF CallsOK
    <3>2. Sealed(w) = written[w]
        BY <1>2, <1>3 DEF Sealed, InFrame
    <3> QED
        BY <1>1, <1>3, <2>2, <2>3, <3>1, <3>2
  <2>4. ASSUME NEW k \in 1..n, i = Len(stream) + k,
               stream'[i] = <<wcall[w], written[w] + k>>
        PROVE  stream'[i][2] = Sealed(v)' - (Len(stream') - i)
      BY <1>1, <1>3, <2>2, <2>4
  <2> QED
      BY <1>5, <2>3, <2>4
<1>10. \A v \in Writers : wcall'[v] <= writes'
    BY <1>2 DEF CallsOK
<1> QED
    BY <1>7, <1>8, <1>9, <1>10, <1>11 DEF CallsOK

\* So do all other steps.
LEMMA CallsOKStep ==
    ASSUME TypeOK, TypeOK', RecordsOK, WriterOK, CallsOK, [Next]_vars
    PROVE  CallsOK'
<1>a. WriterType
    BY TypeParts
<1>b. /\ Len(stream) \in Nat /\ writes \in Nat
      /\ \A w \in Writers : wcall[w] \in Nat /\ written[w] \in Nat
    BY <1>a, Lengths DEF WriterType
<1>1. ASSUME NEW w \in Writers, WriteCall(w) PROVE CallsOK'
  <2>1. /\ writes' = writes + 1
        /\ wcall' = [wcall EXCEPT ![w] = writes + 1]
        /\ written' = [written EXCEPT ![w] = 0]
        /\ wpc' = [wpc EXCEPT ![w] = "lock"]
        /\ UNCHANGED <<records, stream>>
      BY <1>1 DEF WriteCall
  <2>2. \A v \in Writers : /\ v = w => wcall'[v] = writes + 1 /\ wpc'[v] = "lock"
                                       /\ written'[v] = 0
                           /\ v # w => /\ wcall'[v] = wcall[v] /\ wpc'[v] = wpc[v]
                                       /\ written'[v] = written[v]
                                       /\ Sealed(v)' = Sealed(v)
      BY <1>a, <2>1 DEF WriterType, Sealed, InFrame
  <2>3. /\ \A v \in Writers : wcall[v] <= writes
        /\ \A i \in 1..Len(stream) : stream[i][1] <= writes /\ stream[i][1] \in Nat
      BY StreamByte DEF CallsOK
  <2>4. /\ \A v \in Writers : wcall'[v] <= writes'
        /\ \A i \in 1..Len(stream') : stream'[i][1] <= writes'
                                      /\ stream'[i][1] # writes + 1
      BY <1>b, <2>1, <2>2, <2>3
  <2>5. \A u, v \in Writers :
          wpc'[u] # "idle" /\ wpc'[v] # "idle" /\ wcall'[u] = wcall'[v] => u = v
    <3> TAKE u, v \in Writers
    <3>1. wcall[u] # writes + 1 /\ wcall[v] # writes + 1
        BY <1>b, <2>3
    <3> QED
        BY <2>2, <3>1 DEF CallsOK
  <2>6. ASSUME NEW v \in Writers, wpc'[v] = "lock"
        PROVE  written'[v] = 0 /\ \A i \in 1..Len(stream') : stream'[i][1] # wcall'[v]
      BY <2>1, <2>2, <2>4, <2>6 DEF CallsOK
  <2>7. ASSUME NEW v \in Writers, wpc'[v] \in {"loop", "header", "body"},
               NEW i \in 1..Len(stream'), stream'[i][1] = wcall'[v]
        PROVE  stream'[i][2] = Sealed(v)' - (Len(stream') - i)
    <3>1. v # w
        BY <2>2, <2>7
    <3> QED
        BY <2>1, <2>2, <2>7, <3>1 DEF CallsOK
  <2> QED
      BY <2>4, <2>5, <2>6, <2>7 DEF CallsOK
<1>2. ASSUME NEW w \in Writers, WriteLock(w) PROVE CallsOK'
  <2>1. /\ wpc[w] = "lock" /\ wpc' = [wpc EXCEPT ![w] = "loop"]
        /\ UNCHANGED <<records, stream, written, wcall, writes>>
      BY <1>2 DEF WriteLock
  <2>2. \A v \in Writers : /\ v = w => wpc'[v] = "loop"
                           /\ v # w => wpc'[v] = wpc[v] /\ Sealed(v)' = Sealed(v)
      BY <1>a, <2>1 DEF WriterType, Sealed, InFrame
  <2> QED
      BY <2>1, <2>2 DEF CallsOK
<1>3. ASSUME NEW w \in Writers, Seal(w) PROVE CallsOK'
    BY <1>3, CallsOKSeal
<1>4. ASSUME NEW w \in Writers, WriteHeader(w) \/ WriteBody(w) PROVE CallsOK'
  <2>1. InFrame(w) /\ wpc[w] \in {"header", "body"}
      BY <1>4 DEF WriteHeader, WriteBody, InFrame
  <2>2. records[Len(records)] \in Rec
      BY <1>a, <2>1, OutgoingFact, ElementOfSeq DEF WriterType
  <2>3. UNCHANGED <<records, stream, wcall, writes>>
      BY <1>4 DEF WriteHeader, WriteBody
  <2>4. wpc'[w] \in {"loop", "body"} /\ Sealed(w)' = Sealed(w)
    <3>1. CASE WriteHeader(w)
        BY <1>a, <3>1 DEF WriteHeader, WriterType, Sealed, InFrame
    <3>2. CASE WriteBody(w)
      <4>1. /\ wpc[w] = "body" /\ wpc'[w] = "loop"
            /\ written'[w] = written[w] + records[Len(records)].len
          BY <1>a, <3>2 DEF WriteBody, WriterType
      <4>2. written'[w] \in Nat
          BY <1>b, <2>2, <4>1 DEF Rec
      <4> QED
          BY <4>1, <4>2 DEF Sealed, InFrame
    <3> QED
        BY <1>4, <3>1, <3>2
  <2>5. \A v \in Writers : v # w => wpc'[v] = wpc[v] /\ written'[v] = written[v]
                                    /\ Sealed(v)' = Sealed(v)
      BY <1>4, <1>a, <2>3 DEF WriteHeader, WriteBody, WriterType, Sealed, InFrame
  <2> QED
      BY <2>1, <2>3, <2>4, <2>5 DEF CallsOK
<1>5. ASSUME NEW w \in Writers,
             WriteRefused(w) \/ WriteExpired(w) \/ WriteReturn(w)
      PROVE  CallsOK'
  <2>1. /\ wpc' = [wpc EXCEPT ![w] = "idle"]
        /\ UNCHANGED <<records, stream, written, wcall, writes>>
      BY <1>5 DEF WriteRefused, WriteExpired, AbandonFrame, WriteReturn
  <2>2. \A v \in Writers : /\ v = w => wpc'[v] = "idle"
                           /\ v # w => wpc'[v] = wpc[v] /\ Sealed(v)' = Sealed(v)
      BY <1>a, <2>1 DEF WriterType, Sealed, InFrame
  <2> QED
      BY <2>1, <2>2 DEF CallsOK
<1>6. ASSUME UNCHANGED wvars PROVE CallsOK'
    BY <1>6 DEF CallsOK, Sealed, InFrame, wvars
<1>7. ASSUME NEW r \in Readers,
             ReadCall(r) \/ ReadLock(r) \/ ReaderStep(r) \/ ReadExpired(r)
      PROVE  UNCHANGED wvars
    BY <1>7 DEF ReadCall, ReadLock, ReaderStep, ReadBuffered, ReadHeader,
                ReadBadLength, ReadOpen, ReadCorrupted, ReadExhausted, ReadEOF,
                ReadClosed, ReadExpired, ReadFails, ReturnFromRead
<1>8. ASSUME CloseSender \/ CloseReceiver \/ Corrupt \/ Lose \/ Duplicate
      PROVE  UNCHANGED wvars
    BY <1>8 DEF CloseSender, CloseReceiver, Corrupt, Lose, Duplicate, Damage
<1>9. UNCHANGED vars => UNCHANGED wvars
    BY DEF vars
<1> QED
    BY <1>1, <1>2, <1>3, <1>4, <1>5, <1>6, <1>7, <1>8, <1>9 DEF Next, WriterStep

\* Only Seal adds bytes, and they continue a call that ends the stream.
LEMMA ContiguousStep ==
    ASSUME TypeOK, TypeOK', RecordsOK, CallsOK', WriteContiguous, [Next]_vars
    PROVE  WriteContiguous'
<1>a. Len(stream) \in Nat /\ Len(stream') \in Nat
    BY Lengths
<1>1. CASE UNCHANGED stream
    BY <1>1 DEF WriteContiguous
<1>2. ASSUME NEW w \in Writers, Seal(w) PROVE WriteContiguous'
  <2> DEFINE n == records'[Len(records) + 1].len
  <2>1. /\ n \in Nat \ {0}
        /\ Len(stream') = Len(stream) + n
        /\ \A i \in 1..Len(stream) : stream'[i] = stream[i]
        /\ \A k \in 1..n : stream'[Len(stream) + k] = <<wcall[w], written[w] + k>>
      BY <1>2, SealFact, SealBytes
  <2> HIDE DEF n
  <2>2. wcall' = wcall /\ wpc'[w] = "header"
      BY <1>2, TypeParts DEF Seal, WriterType
  <2>3. Sealed(w)' \in Int
    <3>1. stream'[Len(stream')][1] = wcall'[w]
      <4>1. Len(stream') = Len(stream) + n /\ n \in 1..n
          BY <2>1
      <4> QED
          BY <2>1, <2>2, <4>1
    <3>2. Len(records') \in 1..Len(records') /\ WriterType'
        BY <1>2, SealFact, Lengths, TypeParts
    <3>3. records'[Len(records')] \in Rec /\ written'[w] \in Nat
        BY <3>2, ElementOfSeq DEF WriterType
    <3> QED
        BY <2>2, <3>3 DEF Sealed, InFrame, Rec
  <2>4. \A i \in 1..Len(stream') : stream'[i][1] = wcall'[w] =>
            stream'[i][2] = Sealed(w)' - (Len(stream') - i)
      BY <2>2 DEF CallsOK
  <2>5. \A i \in 1..Len(stream') : i > Len(stream) => stream'[i][1] = wcall'[w]
    <3> TAKE i \in 1..Len(stream')
    <3> HAVE i > Len(stream)
    <3>1. i - Len(stream) \in 1..n /\ i = Len(stream) + (i - Len(stream))
        BY <1>a, <2>1
    <3> QED
        BY <2>1, <2>2, <3>1
  <2> SUFFICES ASSUME NEW i \in 1..Len(stream'), NEW j \in 1..Len(stream'),
                      stream'[i][1] = stream'[j][1]
               PROVE  stream'[j][2] - stream'[i][2] = j - i
      BY DEF WriteContiguous
  <2>6. CASE i <= Len(stream) /\ j <= Len(stream)
    <3>1. i \in 1..Len(stream) /\ j \in 1..Len(stream)
        BY <1>a, <2>6
    <3> QED
        BY <2>1, <3>1 DEF WriteContiguous
  <2>7. CASE i > Len(stream) \/ j > Len(stream)
    <3>1. stream'[i][1] = wcall'[w] /\ stream'[j][1] = wcall'[w]
        BY <2>5, <2>7
    <3>2. /\ stream'[i][2] = Sealed(w)' - (Len(stream') - i)
          /\ stream'[j][2] = Sealed(w)' - (Len(stream') - j)
        BY <2>4, <3>1
    <3> QED
        BY <1>a, <2>3, <3>2
  <2> QED
      BY <1>a, <2>6, <2>7
<1> QED
    BY <1>1, <1>2, WhoChangesWhat

\* The bytes of one Write are contiguous in the stream, however many goroutines
\* call Write and however many records each call takes.
THEOREM WritesDoNotInterleave == Spec => []WriteContiguous
<1>1. Init => CallsOK /\ WriteContiguous
  <2> SUFFICES ASSUME Init PROVE CallsOK /\ WriteContiguous
      OBVIOUS
  <2>1. Len(stream) = 0
      BY DEF Init
  <2> QED
      BY <2>1 DEF Init, CallsOK, WriteContiguous
<1>2. Inv /\ Inv' /\ CallsOK /\ [Next]_vars => CallsOK'
    BY CallsOKStep DEF Inv
<1>3. Inv /\ Inv' /\ CallsOK' /\ WriteContiguous /\ [Next]_vars => WriteContiguous'
    BY ContiguousStep DEF Inv
<1> QED
    BY <1>1, <1>2, <1>3, Invariance, PTL DEF Spec

-----------------------------------------------------------------------------
(***************************************************************************)
(* An undamaged stream.  While nothing has gone wrong, what is in transit  *)
(* is the stretch of frames between where the reader is and where the      *)
(* writer is, both counted in bytes since the channel began.               *)
(***************************************************************************)
FrameLen(k) == HdrSize + CtLen(k)

\* The bytes of all frames before frame k, which may be the next one.
Start(k) == End(k - 1) + (k - 1) * (HdrSize + Overhead)

\* Byte o of frame k.
FrameCell(k, o) == IF o <= HdrSize THEN <<"hdr", CtLen(k), o>>
                                   ELSE <<"body", k, o - HdrSize>>

AwaitsBody == \E r \in Readers : rpc[r] = "body"

ReadPos == Start(readSeq + 1) + (IF AwaitsBody THEN HdrSize ELSE 0)

WritePos ==
    IF \E w \in Writers : wpc[w] = "header" THEN Start(Len(records))
    ELSE IF \E w \in Writers : wpc[w] = "body" THEN Start(Len(records)) + HdrSize
    ELSE Start(Len(records) + 1)

Aligned ==
    /\ ReadPos + Len(wire) = WritePos
    /\ \A p \in 1..Len(wire), k \in 1..Len(records) : \A o \in 1..FrameLen(k) :
          Start(k) + o = ReadPos + p => wire[p] = FrameCell(k, o)
    /\ AwaitsBody => readSeq < Len(records) /\ need = CtLen(readSeq + 1)

\* Nothing will be read any more.
Over == ~rOpen \/ (~sOpen /\ wire = <<>> /\ ~AwaitsBody)

LengthsOK == \A k \in 1..Len(records) : CtLen(k) <= MaxFrameSize

Clean == wireFaults = 0 /\ torn = {} /\ ~cut

\* Until something goes wrong, no Read has failed on a frame, and none will.
CauseOK == Clean => (readErrs \cap IntegrityErrors = {}) /\ (Over \/ Aligned)

\* A product grows with its factor.
LEMMA TimesGrows ==
    ASSUME NEW i \in Nat, NEW j \in Nat, NEW h \in Nat, i <= j
    PROVE  i * h \in Nat /\ j * h \in Nat /\ i * h <= j * h
           /\ (i + 1) * h = i * h + h
<1>1. PICK d \in Nat : j = i + d
  <2>1. j - i \in Nat /\ j = i + (j - i)
      OBVIOUS
  <2> QED
      BY <2>1
<1>2. j * h = i * h + d * h
    BY <1>1
<1>3. d * h \in Nat /\ i * h \in Nat
    OBVIOUS
<1> QED
    BY <1>2, <1>3

\* Frames are at least as long as their header, and follow one another.
LEMMA StartFact ==
    ASSUME TypeOK, RecordsOK, NEW k \in 1..Len(records)
    PROVE  /\ records[k] \in Rec
           /\ CtLen(k) \in Nat \ {0} /\ FrameLen(k) \in Nat
           /\ FrameLen(k) = HdrSize + CtLen(k)
           /\ Start(k) \in Nat /\ Start(k + 1) = Start(k) + FrameLen(k)
<1>1. records \in Seq(Rec) /\ Len(records) \in Nat
    BY TypeParts, Lengths DEF WriterType
<1>2. records[k] \in Rec
    BY <1>1, ElementOfSeq
<1>3. CtLen(k) \in Nat \ {0}
    BY BodyFact
<1>4. records[k].lo = End(k - 1) /\ End(k - 1) \in Nat
    BY <1>2 DEF RecordsOK, Rec
<1>5. End(k) = End(k - 1) + records[k].len
    BY <1>1, <1>4 DEF End
<1> DEFINE h == HdrSize + Overhead
<1>6. h \in Nat /\ k - 1 \in Nat /\ k \in Nat
    BY <1>1, SizeAssumption
<1>7. (k - 1) * h \in Nat /\ k * h = (k - 1) * h + h
  <2> HIDE DEF h
  <2>1. (k - 1) * h \in Nat /\ ((k - 1) + 1) * h = (k - 1) * h + h
      BY <1>6, TimesGrows
  <2> QED
      BY <1>6, <2>1
<1>8. Start(k) = End(k - 1) + (k - 1) * h /\ Start(k + 1) = End(k) + k * h
    BY <1>6 DEF Start
<1>9. FrameLen(k) = records[k].len + h
    BY <1>2, SizeAssumption DEF FrameLen, CtLen, Rec
<1> HIDE DEF h
<1>10. Start(k) \in Nat /\ Start(k + 1) = Start(k) + FrameLen(k)
    BY <1>2, <1>4, <1>5, <1>6, <1>7, <1>8, <1>9, SMTT(30) DEF Rec
<1>11. FrameLen(k) = HdrSize + CtLen(k)
    BY DEF FrameLen
<1> QED
    BY <1>2, <1>3, <1>10, <1>11, SizeAssumption

\* A frame ends before any later one starts.
LEMMA StartOrder ==
    ASSUME TypeOK, RecordsOK, NEW i \in 1..Len(records),
           NEW j \in 1..(Len(records) + 1), i < j
    PROVE  Start(j) \in Nat /\ Start(i) + FrameLen(i) <= Start(j)
<1>a. Len(records) \in Nat
    BY Lengths
<1>1. Start(i + 1) = Start(i) + FrameLen(i) /\ i \in Nat /\ j \in Nat
      /\ records[i] \in Rec
    BY <1>a, StartFact
<1>2. End(i) <= End(j - 1) /\ End(i) \in Nat /\ End(j - 1) \in Nat
  <2>1. End(i) \in Nat
      BY <1>1 DEF End, Rec
  <2>2. CASE j = i + 1
      BY <1>1, <2>1, <2>2
  <2>3. CASE j # i + 1
    <3>1. j - 1 \in 1..Len(records) /\ i < j - 1
        BY <1>a, <2>3
    <3>2. records[j - 1] \in Rec /\ End(i) <= records[j - 1].lo
        BY <3>1, StartFact DEF RecordsOK
    <3>3. End(j - 1) = records[j - 1].lo + records[j - 1].len
        BY <3>1 DEF End
    <3> QED
        BY <2>1, <3>2, <3>3 DEF Rec
  <2> QED
      BY <2>2, <2>3
<1> DEFINE h == HdrSize + Overhead
<1>3. h \in Nat /\ i \in Nat /\ j - 1 \in Nat /\ i <= j - 1
    BY <1>a, SizeAssumption
<1>4. Start(i + 1) = End(i) + i * h /\ Start(j) = End(j - 1) + (j - 1) * h
    BY <1>1 DEF Start
<1> HIDE DEF h
<1>5. i * h \in Nat /\ (j - 1) * h \in Nat /\ i * h <= (j - 1) * h
    BY <1>3, TimesGrows
<1> QED
    BY <1>1, <1>2, <1>4, <1>5, SMTT(30)

\* Where the next record will start.
LEMMA StartNext ==
    ASSUME TypeOK, RecordsOK
    PROVE  \A k \in 1..(Len(records) + 1) : Start(k) \in Nat
<1> TAKE k \in 1..(Len(records) + 1)
<1>a. Len(records) \in Nat
    BY Lengths
<1>1. CASE k \in 1..Len(records)
    BY <1>1, StartFact
<1>2. CASE k = Len(records) + 1 /\ Len(records) # 0
    BY <1>a, <1>2, StartOrder
<1>3. CASE k = 1 /\ Len(records) = 0
    BY <1>3, SizeAssumption DEF Start, End
<1> QED
    BY <1>a, <1>1, <1>2, <1>3

\* A byte of frame k lies in no other frame.
LEMMA OneFrame ==
    ASSUME TypeOK, RecordsOK,
           NEW k \in 1..Len(records), NEW o \in 1..FrameLen(k),
           NEW j \in 1..Len(records), NEW q \in 1..FrameLen(j),
           Start(k) + o = Start(j) + q
    PROVE  k = j /\ o = q
<1>a. Len(records) \in Nat
    BY Lengths
<1>1. /\ Start(k) \in Nat /\ FrameLen(k) \in Nat
      /\ Start(j) \in Nat /\ FrameLen(j) \in Nat
    BY StartFact
<1>2. CASE k < j
  <2>1. Start(k) + FrameLen(k) <= Start(j)
      BY <1>2, StartOrder
  <2> QED
      BY <1>1, <2>1
<1>3. CASE j < k
  <2>1. Start(j) + FrameLen(j) <= Start(k)
      BY <1>3, StartOrder
  <2> QED
      BY <1>1, <2>1
<1>4. CASE k = j
    BY <1>1, <1>4
<1> QED
    BY <1>a, <1>2, <1>3, <1>4

\* The reader's position is a number.
LEMMA ReadPosFact ==
    ASSUME TypeOK, RecordsOK, ReadOK
    PROVE  /\ readSeq + 1 \in 1..(Len(records) + 1)
           /\ Start(readSeq + 1) \in Nat /\ ReadPos \in Nat
<1>1. readSeq \in Nat /\ Len(records) \in Nat /\ readSeq <= Len(records)
    BY Lengths DEF ReadOK
<1>2. readSeq + 1 \in 1..(Len(records) + 1)
    BY <1>1
<1>3. Start(readSeq + 1) \in Nat
    BY <1>2, StartNext
<1> QED
    BY <1>2, <1>3, SizeAssumption DEF ReadPos

\* The one writer inside writeFrame tells the writer's position.
LEMMA WritePosFact ==
    ASSUME TypeOK, WriterOK, NEW w \in Writers
    PROVE  /\ wpc[w] = "header" => WritePos = Start(Len(records))
           /\ wpc[w] = "body" => WritePos = Start(Len(records)) + HdrSize
           /\ wpc[w] = "loop" => WritePos = Start(Len(records) + 1)
           /\ ~AnyInFrame => WritePos = Start(Len(records) + 1)
<1>1. ASSUME wpc[w] \in {"loop", "header", "body"}, NEW v \in Writers,
             wpc[v] \in {"header", "body"}
      PROVE  v = w
    BY <1>1 DEF WriterOK
<1> QED
    BY <1>1 DEF WritePos, AnyInFrame, InFrame

\* In an undamaged stream, a reader that finds bytes finds those of frame
\* readSeq + 1, from where it stopped.
LEMMA ReadsFrame ==
    ASSUME TypeOK, RecordsOK, ReadOK, WriterOK, Aligned, wire # <<>>
    PROVE  /\ readSeq + 1 \in 1..Len(records)
           /\ \A d \in Nat, p \in 1..Len(wire) :
                 ReadPos = Start(readSeq + 1) + d
                    /\ d + p <= FrameLen(readSeq + 1)
                 => wire[p] = FrameCell(readSeq + 1, d + p)
<1>a. Len(wire) \in Nat /\ Len(wire) # 0 /\ Len(records) \in Nat
      /\ readSeq \in Nat
    BY TypeParts, Lengths, EmptySeq DEF ConnType
<1>b. ReadPos \in Nat /\ readSeq + 1 \in 1..(Len(records) + 1)
    BY ReadPosFact
<1>c. Start(Len(records) + 1) \in Nat
    BY <1>a, StartNext
<1>1. WritePos <= Start(Len(records) + 1)
  <2>1. CASE AnyInFrame
    <3>1. PICK w \in Writers : InFrame(w)
        BY <2>1 DEF AnyInFrame
    <3>2. Len(records) \in 1..Len(records)
        BY <3>1, OutgoingFact
    <3>3. /\ Start(Len(records) + 1) = Start(Len(records)) + FrameLen(Len(records))
          /\ Start(Len(records)) \in Nat
          /\ CtLen(Len(records)) \in Nat
          /\ FrameLen(Len(records)) = HdrSize + CtLen(Len(records))
        BY <3>2, StartFact
    <3>4. WritePos \in {Start(Len(records)), Start(Len(records)) + HdrSize}
        BY <3>1, WritePosFact DEF InFrame
    <3> QED
        BY <3>3, <3>4, SizeAssumption
  <2>2. CASE ~AnyInFrame
    <3>1. WritePos = Start(Len(records) + 1)
        BY <2>2 DEF WritePos, AnyInFrame, InFrame
    <3> QED
        BY <1>c, <3>1
  <2> QED
      BY <2>1, <2>2
<1>2. readSeq < Len(records)
  <2>1. CASE AwaitsBody
      BY <2>1 DEF Aligned
  <2>2. CASE ~AwaitsBody
    <3>1. ReadPos = Start(readSeq + 1) /\ ReadPos + Len(wire) = WritePos
        BY <1>b, <2>2, ReadPosFact DEF ReadPos, Aligned
    <3>2. readSeq # Len(records)
        BY <1>1, <1>a, <1>b, <1>c, <3>1
    <3> QED
        BY <1>a, <1>b, <3>2
  <2> QED
      BY <2>1, <2>2
<1>3. readSeq + 1 \in 1..Len(records)
    BY <1>a, <1>2
<1>4. ASSUME NEW d \in Nat, NEW p \in 1..Len(wire),
             ReadPos = Start(readSeq + 1) + d, d + p <= FrameLen(readSeq + 1)
      PROVE  wire[p] = FrameCell(readSeq + 1, d + p)
  <2>1. Start(readSeq + 1) \in Nat /\ FrameLen(readSeq + 1) \in Nat
      BY <1>3, StartFact
  <2>2. d + p \in 1..FrameLen(readSeq + 1)
        /\ Start(readSeq + 1) + (d + p) = ReadPos + p
      BY <1>4, <2>1
  <2> QED
      BY <1>3, <2>2 DEF Aligned
<1> QED
    BY <1>3, <1>4

\* Reading n bytes moves the reader by n.
LEMMA AlignedDrops ==
    ASSUME TypeOK, RecordsOK, ReadOK, Aligned, NEW n \in 0..Len(wire),
           wire' = Drop(wire, n), UNCHANGED <<records, wpc>>,
           ReadPos' = ReadPos + n,
           AwaitsBody' => readSeq' < Len(records) /\ need' = CtLen(readSeq' + 1)
    PROVE  Aligned'
<1>a. Len(wire) \in Nat /\ wire \in Seq(Cells) /\ ReadPos \in Nat
    BY TypeParts, Lengths, ReadPosFact DEF ConnType
<1>1. /\ Len(wire') = Len(wire) - n
      /\ \A p \in 1..(Len(wire) - n) : wire'[p] = wire[n + p]
    BY <1>a, DropFact
<1>2. /\ WritePos' = WritePos
      /\ \A k : Start(k)' = Start(k) /\ CtLen(k)' = CtLen(k)
      /\ \A k : FrameLen(k)' = FrameLen(k)
      /\ \A k, o : FrameCell(k, o)' = FrameCell(k, o)
    BY DEF WritePos, Start, End, CtLen, FrameLen, FrameCell
<1>3. ReadPos' + Len(wire') = WritePos'
    BY <1>a, <1>1, <1>2 DEF Aligned
<1>4. ASSUME NEW p \in 1..Len(wire'), NEW k \in 1..Len(records),
             NEW o \in 1..FrameLen(k), Start(k) + o = ReadPos' + p
      PROVE  wire'[p] = FrameCell(k, o)
  <2>1. n + p \in 1..Len(wire) /\ Start(k) + o = ReadPos + (n + p)
      BY <1>a, <1>1, <1>4
  <2>2. wire[n + p] = FrameCell(k, o)
      BY <2>1 DEF Aligned
  <2> QED
      BY <1>a, <1>1, <2>2
<1> QED
    BY <1>2, <1>3, <1>4 DEF Aligned

\* So does writing bytes of the last frame.
LEMMA AlignedGrows ==
    ASSUME TypeOK, RecordsOK, ReadOK, WriterOK, Aligned,
           NEW t \in Seq(Cells), wire' = wire \o t,
           UNCHANGED <<records, rpc, readSeq, need>>,
           NEW N \in 1..Len(records), N = Len(records), NEW d \in Nat,
           WritePos = Start(N) + d, WritePos' = WritePos + Len(t),
           d + Len(t) <= FrameLen(N),
           \A i \in 1..Len(t) : t[i] = FrameCell(N, d + i)
    PROVE  Aligned'
<1>a. /\ Len(wire) \in Nat /\ wire \in Seq(Cells) /\ ReadPos \in Nat
      /\ Len(t) \in Nat
    BY TypeParts, Lengths, ReadPosFact DEF ConnType
<1>1. /\ Len(wire') = Len(wire) + Len(t)
      /\ \A p \in 1..Len(wire) : wire'[p] = wire[p]
      /\ \A i \in 1..Len(t) : wire'[Len(wire) + i] = t[i]
    BY <1>a, ConcatFact
<1>2. /\ ReadPos' = ReadPos /\ (AwaitsBody' <=> AwaitsBody)
      /\ \A k : Start(k)' = Start(k) /\ CtLen(k)' = CtLen(k)
      /\ \A k : FrameLen(k)' = FrameLen(k)
      /\ \A k, o : FrameCell(k, o)' = FrameCell(k, o)
    BY DEF ReadPos, AwaitsBody, Start, End, CtLen, FrameLen, FrameCell
<1>3. ReadPos' + Len(wire') = WritePos'
  <2>1. ReadPos + Len(wire) = WritePos
      BY DEF Aligned
  <2> QED
      BY <1>a, <1>1, <1>2, <2>1
<1>4. ASSUME NEW p \in 1..Len(wire'), NEW k \in 1..Len(records),
             NEW o \in 1..FrameLen(k), Start(k) + o = ReadPos + p
      PROVE  wire'[p] = FrameCell(k, o)
  <2>1. CASE p \in 1..Len(wire)
      BY <1>1, <1>4, <2>1 DEF Aligned
  <2>2. CASE p \notin 1..Len(wire)
    <3> DEFINE x == p - Len(wire)
    <3>1. x \in 1..Len(t) /\ p = Len(wire) + x
        BY <1>a, <1>1, <2>2
    <3> HIDE DEF x
    <3>2. Start(N) \in Nat /\ FrameLen(N) \in Nat
        BY StartFact
    <3>3. Start(k) \in Nat /\ FrameLen(k) \in Nat
        BY StartFact
    <3>4. ReadPos + Len(wire) = Start(N) + d
        BY DEF Aligned
    <3>5. d + x \in 1..FrameLen(N) /\ Start(k) + o = Start(N) + (d + x)
      <4>1. x \in Nat /\ o \in Nat /\ x <= Len(t) /\ x >= 1
          BY <1>a, <3>1, <3>3
      <4>2. d + x \in 1..FrameLen(N)
          BY <1>a, <3>2, <4>1, SMTT(30)
      <4>3. Start(k) + o = ReadPos + (Len(wire) + x)
          BY <1>4, <3>1
      <4>4. ReadPos + (Len(wire) + x) = Start(N) + (d + x)
        <5>1. PICK a \in Nat : a = ReadPos
            BY <1>a
        <5>2. PICK b \in Nat : b = Len(wire)
            BY <1>a
        <5>3. PICK c \in Nat : c = Start(N)
            BY <3>2
        <5>4. PICK e \in Nat : e = x
            BY <4>1
        <5>5. a + b = c + d
            BY <3>4, <5>1, <5>2, <5>3
        <5>6. a + (b + e) = c + (d + e)
            BY <5>5
        <5> QED
            BY <5>1, <5>2, <5>3, <5>4, <5>6
      <4> QED
          BY <4>2, <4>3, <4>4
    <3>6. k = N /\ o = d + x
        BY <3>5, OneFrame
    <3> QED
        BY <1>1, <3>1, <3>6
  <2> QED
      BY <2>1, <2>2
<1> QED
    BY <1>2, <1>3, <1>4 DEF Aligned

\* Sealing a record leaves the positions and the frames so far where they are.
LEMMA AlignedSeal ==
    ASSUME TypeOK, TypeOK', RecordsOK, RecordsOK', ReadOK, WriterOK, WriterOK',
           Aligned, NEW w \in Writers, Seal(w)
    PROVE  Aligned'
<1>a. /\ Len(wire) \in Nat /\ Len(records) \in Nat /\ ReadPos \in Nat
      /\ Len(records') \in Nat
    BY TypeParts, Lengths, ReadPosFact DEF ConnType
<1>1. /\ Len(records') = Len(records) + 1
      /\ \A j \in 1..Len(records) : records'[j] = records[j]
    BY SealFact
<1>2. \A k \in 1..(Len(records) + 1) : Start(k)' = Start(k)
    BY <1>a, <1>1 DEF Start, End
<1>3. \A k \in 1..Len(records) : CtLen(k)' = CtLen(k) /\ FrameLen(k)' = FrameLen(k)
    BY <1>1 DEF CtLen, FrameLen
<1>4. UNCHANGED <<wire, rpc, readSeq, need>>
      /\ wpc[w] = "loop" /\ wpc' = [wpc EXCEPT ![w] = "header"]
    BY DEF Seal, rvars
<1>5. wpc'[w] = "header"
    BY <1>4, TypeParts DEF WriterType
<1>6. WritePos = Start(Len(records) + 1)
    BY <1>4, WritePosFact
<1>7. WritePos' = Start(Len(records))'
    BY <1>5 DEF WritePos
<1>8. WritePos' = WritePos
  <2>1. Len(records) + 1 \in 1..(Len(records) + 1)
      BY <1>a
  <2> QED
      BY <1>1, <1>2, <1>6, <1>7, <2>1
<1>9. (AwaitsBody' <=> AwaitsBody) /\ ReadPos' = ReadPos
    BY <1>2, <1>4, ReadPosFact DEF ReadPos, AwaitsBody
<1>10. ASSUME NEW p \in 1..Len(wire), NEW k \in 1..Len(records'),
              NEW o \in 1..FrameLen(k)', Start(k)' + o = ReadPos + p
       PROVE  wire[p] = FrameCell(k, o)'
  <2>1. CASE k \in 1..Len(records)
    <3>1. wire[p] = FrameCell(k, o)
        BY <1>2, <1>3, <1>10, <2>1 DEF Aligned
    <3> QED
        BY <1>3, <2>1, <3>1 DEF FrameCell
  <2>2. CASE k = Len(records) + 1
    <3>1. Start(k)' = Start(Len(records) + 1) /\ Start(Len(records) + 1) \in Nat
        BY <1>2, <1>a, <2>2, StartNext
    <3>2. ReadPos + Len(wire) = Start(Len(records) + 1)
        BY <1>6 DEF Aligned
    <3>3. o \in Nat /\ o > 0
        BY <1>10
    <3> QED
        BY <1>a, <1>10, <3>1, <3>2, <3>3
  <2> QED
      BY <1>a, <1>1, <2>1, <2>2
<1>11. AwaitsBody' => readSeq' < Len(records') /\ need' = CtLen(readSeq + 1)'
  <2> HAVE AwaitsBody'
  <2>1. readSeq < Len(records) /\ need = CtLen(readSeq + 1)
      BY <1>9 DEF Aligned
  <2>2. readSeq + 1 \in 1..Len(records) /\ readSeq < Len(records) + 1
      BY <1>a, <2>1, Lengths, SMTT(30)
  <2>3. CtLen(readSeq + 1)' = CtLen(readSeq + 1)
      BY <1>3, <1>4, <2>2 DEF CtLen
  <2> QED
      BY <1>1, <1>4, <2>1, <2>2, <2>3
<1> QED
    BY <1>4, <1>8, <1>9, <1>10, <1>11 DEF Aligned

\* Every ciphertext fits in a frame.
LEMMA LengthsOKStep ==
    ASSUME TypeOK, RecordsOK, LengthsOK, [Next]_vars
    PROVE  LengthsOK'
<1>1. CASE UNCHANGED records
    BY <1>1 DEF LengthsOK, CtLen
<1>2. ASSUME NEW w \in Writers, Seal(w) PROVE LengthsOK'
  <2>1. /\ Len(records') = Len(records) + 1
        /\ \A j \in 1..Len(records) : records'[j] = records[j]
      BY <1>2, SealFact
  <2>2. records'[Len(records) + 1].len = ChunkLen(w)
    <3> DEFINE rec == [nonce |-> writeSeq, lo |-> Len(stream), len |-> ChunkLen(w)]
    <3>1. ChunkLen(w) \in Nat \ {0} /\ WriterType /\ Len(stream) \in Nat
        BY <1>2, ChunkFact, TypeParts, Lengths DEF Seal
    <3>2. rec \in Rec /\ rec.len = ChunkLen(w)
        BY <3>1 DEF WriterType, Rec
    <3>3. records' = Append(records, rec) /\ records \in Seq(Rec)
        BY <1>2, <3>1 DEF Seal, WriterType
    <3> HIDE DEF rec
    <3> QED
        BY <3>2, <3>3, AppendProperties
  <2>3. ChunkLen(w) + Overhead <= MaxFrameSize
    <3>1. ChunkLen(w) \in Nat /\ ChunkLen(w) <= MaxFrameSize - Overhead
      <4>1. ChunkLen(w) \in Nat
          BY <1>2, ChunkFact DEF Seal
      <4>2. wlen[w] \in Nat /\ written[w] \in Nat
          BY TypeParts DEF WriterType
      <4> QED
          BY <4>1, <4>2, SizeAssumption DEF ChunkLen, maxPlain, Lesser
    <3> QED
        BY <3>1, SizeAssumption
  <2>4. \A k \in 1..Len(records') : k \in 1..Len(records) \/ k = Len(records) + 1
      BY <2>1, Lengths
  <2> QED
      BY <2>1, <2>2, <2>3, <2>4 DEF LengthsOK, CtLen
<1> QED
    BY <1>1, <1>2, WhoChangesWhat

\* Where the writer is does not change when nobody enters or leaves writeFrame.
LEMMA WritePosKeeps ==
    ASSUME UNCHANGED records,
           \A w \in Writers : InFrame(w) \/ InFrame(w)' => wpc'[w] = wpc[w]
    PROVE  WritePos' = WritePos
<1>1. \A w \in Writers : /\ wpc'[w] = "header" <=> wpc[w] = "header"
                         /\ wpc'[w] = "body" <=> wpc[w] = "body"
    BY DEF InFrame
<1> QED
    BY <1>1 DEF WritePos, Start, End

\* A step that moves neither end keeps the two aligned.
LEMMA AlignedKeeps ==
    ASSUME Aligned, UNCHANGED <<wire, records, readSeq>>,
           \A w \in Writers : InFrame(w) \/ InFrame(w)' => wpc'[w] = wpc[w],
           AwaitsBody' <=> AwaitsBody,
           AwaitsBody => need' = need
    PROVE  Aligned'
<1>1. WritePos' = WritePos
    BY WritePosKeeps
<1>2. /\ \A k : Start(k)' = Start(k) /\ CtLen(k)' = CtLen(k)
      /\ \A k : FrameLen(k)' = FrameLen(k)
      /\ \A k, o : FrameCell(k, o)' = FrameCell(k, o)
    BY DEF Start, End, CtLen, FrameLen, FrameCell
<1>3. ReadPos' = ReadPos
    BY <1>2 DEF ReadPos
<1>4. ReadPos' + Len(wire') = WritePos'
    BY <1>1, <1>3 DEF Aligned
<1>5. \A p \in 1..Len(wire), k \in 1..Len(records) : \A o \in 1..FrameLen(k) :
          Start(k) + o = ReadPos + p => wire[p] = FrameCell(k, o)
    BY DEF Aligned
<1>6. AwaitsBody' => readSeq' < Len(records') /\ need' = CtLen(readSeq + 1)'
    BY <1>2 DEF Aligned, CtLen
<1> QED
    BY <1>2, <1>3, <1>4, <1>5, <1>6 DEF Aligned

\* A reader that holds the mutex is the only one that may be awaiting a payload.
LEMMA SoleReader ==
    ASSUME TypeOK, ReaderOK, NEW r \in Readers, rpc[r] \in {"locked", "body"}
    PROVE  /\ rpc[r] = "locked" => ~AwaitsBody
           /\ rpc' = [rpc EXCEPT ![r] = "idle"] => ~AwaitsBody'
           /\ rpc' = [rpc EXCEPT ![r] = "body"] => AwaitsBody'
<1>1. \A q \in Readers : q # r => rpc[q] \notin {"locked", "body"}
    BY DEF ReaderOK
<1>2. rpc \in [Readers -> {"idle", "lock", "locked", "body"}]
    BY DEF TypeOK
<1> QED
    BY <1>1, <1>2 DEF AwaitsBody

\* In an undamaged stream the next HdrSize bytes are the header of frame
\* readSeq + 1, and no other length can be read from them.
LEMMA GoodHeader ==
    ASSUME TypeOK, RecordsOK, ReadOK, WriterOK, LengthsOK, Aligned, ~AwaitsBody,
           Len(wire) >= HdrSize
    PROVE  /\ readSeq + 1 \in 1..Len(records)
           /\ HeaderValues = {CtLen(readSeq + 1)}
           /\ CtLen(readSeq + 1) \in 1..MaxFrameSize
<1>a. Len(wire) \in Nat /\ wire \in Seq(Cells) /\ wire # <<>>
    BY TypeParts, Lengths, SizeAssumption DEF ConnType
<1>1. PICK k : k = readSeq + 1
    OBVIOUS
<1>2. k \in 1..Len(records)
    BY <1>1, <1>a, ReadsFrame
<1>3. PICK n : n = CtLen(k)
    OBVIOUS
<1>4. n \in 1..MaxFrameSize /\ FrameLen(k) = HdrSize + n
    BY <1>2, <1>3, StartFact, SizeAssumption DEF LengthsOK
<1>5. ReadPos = Start(k) + 0
    BY <1>1, ReadPosFact DEF ReadPos
<1>6. \A p \in 1..HdrSize : wire[p] = <<"hdr", n, p>>
  <2> TAKE p \in 1..HdrSize
  <2>1. p \in 1..Len(wire) /\ 0 + p = p /\ p <= FrameLen(k)
      BY <1>4, <1>a, SizeAssumption
  <2>2. wire[p] = FrameCell(k, p)
      BY <1>1, <1>5, <1>a, <2>1, ReadsFrame
  <2> QED
      BY <1>3, <2>2, SizeAssumption DEF FrameCell
<1> DEFINE h == SubSeq(wire, 1, HdrSize)
<1>7. h \in Seq(Cells) /\ Len(h) = HdrSize /\ \A p \in 1..HdrSize : h[p] = wire[p]
    BY <1>a, TakeFact, SizeAssumption
<1>8. Hdr(n) \in Seq(Cells) /\ Len(Hdr(n)) = HdrSize
      /\ \A p \in 1..HdrSize : Hdr(n)[p] = <<"hdr", n, p>>
  <2>1. n \in Nat
      BY <1>4
  <2>2. \A p \in 1..HdrSize : Hdr(n)[p] = <<"hdr", n, p>>
      BY DEF Hdr
  <2> QED
      BY <2>1, <2>2, HdrFact
<1>9. h = Hdr(n)
    BY <1>6, <1>7, <1>8, SeqEqual
<1>10. \A m : h = Hdr(m) => m = n
  <2> SUFFICES ASSUME NEW m, h = Hdr(m) PROVE m = n
      OBVIOUS
  <2>1. 1 \in 1..HdrSize
      BY SizeAssumption
  <2>2. Hdr(m)[1] = <<"hdr", m, 1>> /\ Hdr(n)[1] = <<"hdr", n, 1>>
      BY <2>1 DEF Hdr
  <2>3. Hdr(m)[1] = Hdr(n)[1]
      BY <1>9
  <2> QED
      BY <2>2, <2>3
<1>11. HeaderValues = {n}
  <2> HIDE DEF h
  <2>1. \E m \in 1..MaxFrameSize : h = Hdr(m)
      BY <1>4, <1>9
  <2>2. {m \in 1..MaxFrameSize : h = Hdr(m)} = {n}
      BY <1>4, <1>9, <1>10
  <2> QED
      BY <2>1, <2>2 DEF HeaderValues, h
<1> QED
    BY <1>1, <1>2, <1>3, <1>4, <1>11

\* And the payload that follows opens.
LEMMA GoodPayload ==
    ASSUME TypeOK, RecordsOK, ReadOK, WriterOK, Aligned, AwaitsBody,
           Len(wire) >= need
    PROVE  /\ readSeq + 1 \in 1..Len(records)
           /\ ~SeqExhausted(readSeq)
           /\ need = CtLen(readSeq + 1)
           /\ Opens(SubSeq(wire, 1, need), readSeq, readSeq + 1)
<1>1. PICK k : k = readSeq + 1
    OBVIOUS
<1>2. readSeq \in Nat /\ Len(records) \in Nat /\ writeSeq \in 0..SeqMax
      /\ Len(wire) \in Nat
    BY Lengths, TypeParts DEF WriterType
<1>3. readSeq < Len(records) /\ need = CtLen(k) /\ k \in 1..Len(records)
    BY <1>1, <1>2 DEF Aligned
<1>4. need \in Nat \ {0} /\ FrameLen(k) = HdrSize + need
    BY <1>3, StartFact
<1>5. wire \in Seq(Cells) /\ wire # <<>>
    BY <1>2, <1>4, TypeParts DEF ConnType
<1>6. ReadPos = Start(k) + HdrSize
    BY <1>1 DEF ReadPos
<1>7. \A p \in 1..need : wire[p] = <<"body", k, p>>
  <2> TAKE p \in 1..need
  <2>1. p \in 1..Len(wire) /\ HdrSize + p <= FrameLen(k) /\ HdrSize \in Nat
      BY <1>2, <1>4, SizeAssumption
  <2>2. wire[p] = FrameCell(k, HdrSize + p)
      BY <1>1, <1>5, <1>6, <2>1, ReadsFrame
  <2>3. ~(HdrSize + p <= HdrSize) /\ (HdrSize + p) - HdrSize = p
      BY <1>4, <2>1
  <2> QED
      BY <2>2, <2>3 DEF FrameCell
<1> DEFINE f == SubSeq(wire, 1, need)
<1>8. f \in Seq(Cells) /\ Len(f) = need /\ \A p \in 1..need : f[p] = wire[p]
    BY <1>2, <1>4, <1>5, TakeFact
<1>9. Body(k) \in Seq(Cells) /\ Len(Body(k)) = need
      /\ \A p \in 1..need : Body(k)[p] = <<"body", k, p>>
    BY <1>3, BodyFact
<1>10. f = Body(k)
    BY <1>7, <1>8, <1>9, SeqEqual
<1>11. records[k].nonce = readSeq
    BY <1>1, <1>2, <1>3 DEF RecordsOK
<1>12. ~SeqExhausted(readSeq)
    BY <1>2, <1>3, SizeAssumption DEF RecordsOK, SeqExhausted
<1> QED
    BY <1>1, <1>3, <1>10, <1>11, <1>12 DEF Opens

\* Steps of Write in an undamaged stream.
LEMMA CauseOKWrite ==
    ASSUME Inv, Inv', LengthsOK, CauseOK, NEW w \in Writers,
           WriteCall(w) \/ WriteLock(w) \/ WriterStep(w) \/ WriteExpired(w)
    PROVE  CauseOK'
<1>a. /\ TypeOK /\ RecordsOK /\ ReadOK /\ WriterOK
      /\ TypeOK' /\ RecordsOK' /\ WriterOK' /\ WriterType /\ WriterType'
    BY TypeParts DEF Inv
<1>b. WriteRefused(w) \/ WriteExpired(w) => wpc'[w] = "idle"
    BY <1>a DEF WriteRefused, WriteExpired, AbandonFrame, WriterType
<1>1. CASE WriteRefused(w) \/ WriteExpired(w)
    BY <1>1 DEF WriteRefused, WriteExpired, AbandonFrame, CauseOK, Clean
<1>2. ASSUME ~(WriteRefused(w) \/ WriteExpired(w))
      PROVE  /\ UNCHANGED <<rvars, sOpen, rOpen, wireFaults, torn, cut>>
             /\ Clean' => Clean
             /\ Over /\ UNCHANGED wire => Over'
             /\ Over /\ sOpen => Over'
  <2>1. UNCHANGED <<rvars, sOpen, rOpen, wireFaults, torn, cut>>
      BY <1>2 DEF WriteCall, WriteLock, WriterStep, Seal, WriteHeader, WriteBody,
                  WriteReturn, fvars
  <2> QED
      BY <2>1 DEF Clean, Over, AwaitsBody, rvars
<1>3. ASSUME ~(WriteRefused(w) \/ WriteExpired(w)),
             (Over /\ UNCHANGED wire) \/ (Over /\ sOpen) \/ Aligned'
      PROVE  CauseOK'
    BY <1>2, <1>3 DEF CauseOK, rvars
<1>4. CASE WriteCall(w) \/ WriteLock(w) \/ WriteReturn(w)
  <2>1. /\ UNCHANGED <<wire, records, rvars>>
        /\ \A v \in Writers : InFrame(v) \/ InFrame(v)' => wpc'[v] = wpc[v]
      BY <1>4, <1>a DEF WriteCall, WriteLock, WriteReturn, InFrame, WriterType
  <2>2. Aligned => Aligned'
      BY <2>1, AlignedKeeps DEF AwaitsBody, rvars
  <2>3. ~(WriteRefused(w) \/ WriteExpired(w))
      BY <1>4 DEF WriteCall, WriteLock, WriteReturn, WriteRefused, WriteExpired
  <2>4. UNCHANGED wire /\ (Clean => Over \/ Aligned)
      BY <2>1 DEF CauseOK
  <2> QED
      BY <1>2, <1>3, <2>2, <2>3, <2>4 DEF CauseOK
<1>5. CASE Seal(w)
  <2>1. Aligned => Aligned'
      BY <1>5, <1>a, AlignedSeal
  <2>2. ~(WriteRefused(w) \/ WriteExpired(w)) /\ UNCHANGED wire
      BY <1>5 DEF Seal, WriteRefused, WriteExpired
  <2>3. Clean => Over \/ Aligned
      BY DEF CauseOK
  <2> QED
      BY <1>2, <1>3, <2>1, <2>2, <2>3 DEF CauseOK
<1>6. ASSUME NEW d \in Nat, NEW t \in Seq(Cells), Len(records) \in 1..Len(records),
             wire' = wire \o t, sOpen, UNCHANGED <<records, rvars>>,
             WritePos = Start(Len(records)) + d,
             WritePos' = WritePos + Len(t),
             d + Len(t) <= FrameLen(Len(records)),
             \A i \in 1..Len(t) : t[i] = FrameCell(Len(records), d + i),
             ~(WriteRefused(w) \/ WriteExpired(w))
      PROVE  CauseOK'
  <2>1. Aligned => Aligned'
    <3> HAVE Aligned
    <3>1. PICK N \in 1..Len(records) : N = Len(records)
        BY <1>6
    <3>2. UNCHANGED <<records, rpc, readSeq, need>>
        BY <1>6 DEF rvars
    <3>3. WritePos = Start(N) + d /\ d + Len(t) <= FrameLen(N)
          /\ \A i \in 1..Len(t) : t[i] = FrameCell(N, d + i)
        BY <1>6, <3>1
    <3> QED
        BY <1>6, <1>a, <3>1, <3>2, <3>3, AlignedGrows
  <2>2. Clean => Over \/ Aligned
      BY DEF CauseOK
  <2> QED
      BY <1>2, <1>3, <1>6, <2>1, <2>2 DEF CauseOK
<1>7. CASE WriteHeader(w)
  <2>1. wpc[w] = "header" /\ wpc'[w] = "body" /\ UNCHANGED <<records, rvars>> /\ sOpen
      BY <1>7, <1>a DEF WriteHeader, WriterType
  <2>2. PICK N : N = Len(records)
      OBVIOUS
  <2>3. N \in 1..Len(records)
      BY <1>a, <2>1, <2>2, OutgoingFact DEF InFrame
  <2>4. CtLen(N) \in Nat /\ FrameLen(N) = HdrSize + CtLen(N) /\ Start(N) \in Nat
      BY <1>a, <2>3, StartFact
  <2>5. PICK t : t = Hdr(CtLen(N))
      OBVIOUS
  <2>6. t \in Seq(Cells) /\ Len(t) = HdrSize
      BY <2>4, <2>5, HdrFact
  <2>7. \A i \in 1..HdrSize : t[i] = FrameCell(N, 0 + i)
      BY <2>5, SizeAssumption DEF Hdr, FrameCell
  <2>8. WritePos = Start(N) + 0
      BY <1>a, <2>1, <2>2, <2>4, WritePosFact
  <2>9. WritePos' = Start(N) + HdrSize
    <3>1. ~\E v \in Writers : wpc'[v] = "header"
        BY <1>7, <1>a DEF WriteHeader, WriterOK, WriterType
    <3> QED
        BY <2>1, <2>2, <3>1 DEF WritePos, Start, End
  <2>10. WritePos' = WritePos + Len(t) /\ 0 + Len(t) <= FrameLen(N)
      BY <2>4, <2>6, <2>8, <2>9, SizeAssumption
  <2>11. wire' = wire \o t /\ ~(WriteRefused(w) \/ WriteExpired(w))
      BY <1>7, <1>b, <2>1, <2>2, <2>5 DEF WriteHeader
  <2> QED
      BY <1>6, <2>1, <2>2, <2>3, <2>6, <2>7, <2>8, <2>10, <2>11
<1>8. CASE WriteBody(w)
  <2>1. wpc[w] = "body" /\ wpc'[w] = "loop" /\ UNCHANGED <<records, rvars>> /\ sOpen
      BY <1>8, <1>a DEF WriteBody, WriterType
  <2>2. PICK N : N = Len(records)
      OBVIOUS
  <2>3. N \in 1..Len(records) /\ InFrame(w)
      BY <1>a, <2>1, <2>2, OutgoingFact DEF InFrame
  <2>4. /\ CtLen(N) \in Nat /\ FrameLen(N) = HdrSize + CtLen(N)
        /\ Start(N) \in Nat /\ Start(N + 1) = Start(N) + FrameLen(N)
      BY <1>a, <2>3, StartFact
  <2>5. PICK t : t = Body(N)
      OBVIOUS
  <2>6. /\ t \in Seq(Cells) /\ Len(t) = CtLen(N)
        /\ \A i \in 1..CtLen(N) : t[i] = <<"body", N, i>>
      BY <1>a, <2>3, <2>5, BodyFact
  <2>7. \A i \in 1..Len(t) : t[i] = FrameCell(N, HdrSize + i)
    <3> TAKE i \in 1..Len(t)
    <3>1. ~(HdrSize + i <= HdrSize) /\ (HdrSize + i) - HdrSize = i
        BY <2>4, <2>6, SizeAssumption
    <3> QED
        BY <2>6, <3>1 DEF FrameCell
  <2>8. WritePos = Start(N) + HdrSize
      BY <1>a, <2>1, <2>2, WritePosFact
  <2>9. WritePos' = Start(N + 1)
    <3>1. ~AnyInFrame'
        BY <1>8, <1>a, <2>3, SoleWriter DEF WriteBody
    <3> QED
        BY <2>1, <2>2, <3>1 DEF WritePos, Start, End, AnyInFrame, InFrame
  <2>10. WritePos' = WritePos + Len(t) /\ HdrSize + Len(t) <= FrameLen(N)
      BY <2>4, <2>6, <2>8, <2>9, SizeAssumption
  <2>11. wire' = wire \o t /\ ~(WriteRefused(w) \/ WriteExpired(w))
      BY <1>8, <1>b, <2>1, <2>2, <2>5 DEF WriteBody
  <2> QED
      BY <1>6, <2>1, <2>2, <2>3, <2>6, <2>7, <2>8, <2>10, <2>11, SizeAssumption
<1> QED
    BY <1>1, <1>4, <1>5, <1>7, <1>8 DEF WriterStep

\* Steps of Read in an undamaged stream.
LEMMA CauseOKRead ==
    ASSUME Inv, LengthsOK, CauseOK, NEW r \in Readers,
           ReadCall(r) \/ ReadLock(r) \/ ReaderStep(r) \/ ReadExpired(r)
    PROVE  CauseOK'
<1>a. /\ TypeOK /\ RecordsOK /\ ReadOK /\ WriterOK /\ ReaderOK
      /\ WriterType /\ ReaderType /\ ConnType
    BY TypeParts DEF Inv
<1>b. Len(wire) \in Nat /\ wire \in Seq(Cells) /\ readSeq \in Nat
    BY <1>a, Lengths DEF ConnType
<1>c. UNCHANGED <<wvars, sOpen, rOpen, wireFaults>> /\ (cut => cut')
  <2>1. CASE ReadExpired(r)
    <3>1. PICK n : /\ ReadFails(r, "timeout", n)
                   /\ cut' = (cut \/ rpc[r] = "body" \/ n > 0)
        BY <2>1 DEF ReadExpired
    <3>2. cut => cut'
        BY <3>1
    <3> QED
        BY <2>1, <3>1, <3>2 DEF ReadExpired, ReadFails, ReturnFromRead
  <2>2. CASE ~ReadExpired(r)
      BY <2>2 DEF ReadCall, ReadLock, ReaderStep, ReadBuffered, ReadHeader,
                  ReadBadLength, ReadOpen, ReadCorrupted, ReadExhausted, ReadEOF,
                  ReadClosed, ReadFails, ReturnFromRead, fvars
  <2> QED
      BY <2>1, <2>2
<1>d. UNCHANGED <<records, wpc, torn>>
    BY <1>c DEF wvars
<1> SUFFICES ASSUME Clean'
             PROVE  readErrs' \cap IntegrityErrors = {} /\ (Over' \/ Aligned')
    BY DEF CauseOK
<1>e. Clean /\ readErrs \cap IntegrityErrors = {} /\ (Over \/ Aligned)
    BY <1>c, <1>d DEF Clean, CauseOK
<1>f. ASSUME UNCHANGED <<wire, readSeq>>, AwaitsBody' <=> AwaitsBody,
             AwaitsBody => need' = need
      PROVE  Over' \/ Aligned'
  <2>1. \A w \in Writers : wpc'[w] = wpc[w]
      BY <1>d
  <2>2. Aligned => Aligned'
      BY <1>d, <1>f, <2>1, AlignedKeeps
  <2>3. Over => Over'
      BY <1>c, <1>f DEF Over
  <2> QED
      BY <1>e, <2>2, <2>3
<1>1. CASE ReadCall(r) \/ ReadLock(r)
  <2>1. UNCHANGED <<wire, readSeq, need, readErrs>>
      BY <1>1 DEF ReadCall, ReadLock
  <2>2. AwaitsBody' <=> AwaitsBody
      BY <1>1, <1>a DEF ReadCall, ReadLock, AwaitsBody, ReaderType
  <2> QED
      BY <1>e, <1>f, <2>1, <2>2
<1>2. CASE ReadBuffered(r)
  <2>1. /\ rpc[r] = "locked" /\ rpc' = [rpc EXCEPT ![r] = "idle"]
        /\ UNCHANGED <<wire, readSeq, readErrs>>
      BY <1>2 DEF ReadBuffered, ReturnFromRead
  <2>2. ~AwaitsBody /\ ~AwaitsBody'
      BY <1>a, <2>1, SoleReader
  <2> QED
      BY <1>e, <1>f, <2>1, <2>2
<1>3. CASE ReadHeader(r) \/ ReadBadLength(r)
  <2>1. rpc[r] = "locked" /\ rOpen /\ Len(wire) >= HdrSize
      BY <1>3 DEF ReadHeader, ReadBadLength
  <2>2. ~AwaitsBody /\ wire # <<>>
      BY <1>a, <2>1, SoleReader, SizeAssumption
  <2>3. Aligned
      BY <1>e, <2>1, <2>2 DEF Over
  <2>4. PICK k : k = readSeq + 1
      OBVIOUS
  <2>5. /\ k \in 1..Len(records) /\ HeaderValues = {CtLen(k)}
        /\ CtLen(k) \in 1..MaxFrameSize
      BY <1>a, <2>1, <2>2, <2>3, <2>4, GoodHeader
  <2>6. ~ReadBadLength(r)
      BY <2>5 DEF ReadBadLength
  <2>7. /\ need' = CtLen(k) /\ wire' = Drop(wire, HdrSize)
        /\ rpc' = [rpc EXCEPT ![r] = "body"] /\ UNCHANGED <<readSeq, readErrs>>
      BY <1>3, <2>5, <2>6 DEF ReadHeader
  <2>8. AwaitsBody'
      BY <1>a, <2>1, <2>7, SoleReader
  <2>9. ReadPos' = ReadPos + HdrSize
    <3>1. ReadPos = Start(k) + 0 /\ Start(k) \in Nat
        BY <1>a, <2>2, <2>4, ReadPosFact DEF ReadPos
    <3>2. ReadPos' = Start(k) + HdrSize
        BY <1>d, <2>4, <2>7, <2>8 DEF ReadPos, Start, End
    <3> QED
        BY <3>1, <3>2, SizeAssumption
  <2>10. HdrSize \in 0..Len(wire) /\ readSeq < Len(records)
      BY <1>a, <1>b, <2>1, <2>4, <2>5, Lengths, SizeAssumption
  <2>11. Aligned'
      BY <1>a, <1>d, <2>3, <2>4, <2>7, <2>9, <2>10, AlignedDrops
  <2> QED
      BY <1>e, <2>7, <2>11
<1>4. CASE ReadOpen(r) \/ ReadCorrupted(r) \/ ReadExhausted(r)
  <2>1. rpc[r] = "body" /\ rOpen /\ Len(wire) >= need
      BY <1>4 DEF ReadOpen, ReadCorrupted, ReadExhausted, FrameArrived
  <2>2. AwaitsBody
      BY <2>1 DEF AwaitsBody
  <2>3. Aligned
      BY <1>e, <2>1, <2>2 DEF Over
  <2>4. PICK k : k = readSeq + 1
      OBVIOUS
  <2>5. /\ k \in 1..Len(records) /\ ~SeqExhausted(readSeq) /\ need = CtLen(k)
        /\ Opens(SubSeq(wire, 1, need), readSeq, k)
      BY <1>a, <2>1, <2>2, <2>3, <2>4, GoodPayload
  <2>6. ReadOpen(r)
      BY <1>4, <2>5 DEF ReadCorrupted, ReadExhausted
  <2>7. /\ wire' = Drop(wire, need) /\ readSeq' = readSeq + 1
        /\ rpc' = [rpc EXCEPT ![r] = "idle"] /\ UNCHANGED readErrs
      BY <2>6 DEF ReadOpen, ReturnFromRead
  <2>8. ~AwaitsBody'
      BY <1>a, <2>1, <2>7, SoleReader
  <2>9. /\ Start(k) \in Nat /\ Start(k + 1) = Start(k) + FrameLen(k)
        /\ FrameLen(k) = HdrSize + need /\ need \in Nat
      BY <1>a, <2>5, StartFact
  <2>10. ReadPos' = ReadPos + need
    <3>1. ReadPos = Start(k) + HdrSize
        BY <2>2, <2>4 DEF ReadPos
    <3>2. ReadPos' = Start(k + 1) + 0
        BY <1>d, <2>4, <2>7, <2>8 DEF ReadPos, Start, End
    <3> QED
        BY <2>9, <3>1, <3>2, SizeAssumption
  <2>11. need \in 0..Len(wire)
      BY <1>b, <2>1, <2>9
  <2>12. Aligned'
      BY <1>a, <1>d, <2>3, <2>7, <2>8, <2>10, <2>11, AlignedDrops
  <2> QED
      BY <1>e, <2>7, <2>12
<1>5. CASE ReadEOF(r)
  <2>1. /\ rpc[r] \in {"locked", "body"} /\ ~sOpen
        /\ rpc' = [rpc EXCEPT ![r] = "idle"]
        /\ readErrs' = readErrs \cup {"eof"} /\ wire' = Drop(wire, Len(wire))
      BY <1>5 DEF ReadEOF, InReadFull, ReadFails, ReturnFromRead
  <2>2. ~AwaitsBody'
      BY <1>a, <2>1, SoleReader
  <2>3. wire' = <<>>
    <3>1. wire' \in Seq(Cells) /\ Len(wire') = Len(wire) - Len(wire)
        BY <1>b, <2>1, DropFact
    <3> QED
        BY <1>b, <3>1, EmptySeq
  <2> QED
      BY <1>c, <1>e, <2>1, <2>2, <2>3 DEF Over, IntegrityErrors
<1>6. CASE ReadClosed(r)
  <2>1. ~rOpen /\ readErrs' = readErrs \cup {"closed"}
      BY <1>6 DEF ReadClosed, ReadFails
  <2> QED
      BY <1>c, <1>e, <2>1 DEF Over, IntegrityErrors
<1>7. CASE ReadExpired(r)
  <2>1. PICK n \in 0..Lesser(Len(wire), Wanted(r) - 1) :
            /\ ReadFails(r, "timeout", n)
            /\ cut' = (cut \/ rpc[r] = "body" \/ n > 0)
      BY <1>7 DEF ReadExpired
  <2>2. rpc[r] # "body" /\ ~(n > 0)
      BY <2>1 DEF Clean
  <2>3. n = 0
      BY <1>b, <2>1, <2>2
  <2>4. /\ wire' = Drop(wire, 0) /\ readErrs' = readErrs \cup {"timeout"}
        /\ UNCHANGED readSeq /\ rpc' = [rpc EXCEPT ![r] = "idle"]
      BY <2>1, <2>3 DEF ReadFails, ReturnFromRead
  <2>5. wire' = wire
    <3>1. /\ wire' \in Seq(Cells) /\ Len(wire') = Len(wire) - 0
          /\ \A i \in 1..(Len(wire) - 0) : wire'[i] = wire[0 + i]
        BY <1>b, <2>4, DropFact
    <3>2. Len(wire') = Len(wire) /\ \A i \in 1..Len(wire) : wire'[i] = wire[i]
        BY <1>b, <3>1
    <3> QED
        BY <1>b, <3>1, <3>2, SeqEqual
  <2>6. rpc[r] = "locked"
      BY <1>7, <2>2 DEF ReadExpired, InReadFull
  <2>7. ~AwaitsBody /\ ~AwaitsBody'
      BY <1>a, <2>4, <2>6, SoleReader
  <2> QED
      BY <1>e, <1>f, <2>4, <2>5, <2>7 DEF IntegrityErrors
<1> QED
    BY <1>1, <1>2, <1>3, <1>4, <1>5, <1>6, <1>7 DEF ReaderStep

\* All steps.
LEMMA CauseOKStep ==
    ASSUME Inv, Inv', LengthsOK, CauseOK, [Next]_vars
    PROVE  CauseOK'
<1>1. ASSUME NEW w \in Writers,
             WriteCall(w) \/ WriteLock(w) \/ WriterStep(w) \/ WriteExpired(w)
      PROVE  CauseOK'
    BY <1>1, CauseOKWrite
<1>2. ASSUME NEW r \in Readers,
             ReadCall(r) \/ ReadLock(r) \/ ReaderStep(r) \/ ReadExpired(r)
      PROVE  CauseOK'
    BY <1>2, CauseOKRead
<1>3. ASSUME UNCHANGED <<wvars, wire, rvars, fvars>>,
             sOpen' => sOpen, rOpen' => rOpen
      PROVE  CauseOK'
  <2>1. UNCHANGED <<wpc, records, wire, readSeq, rpc, need, readErrs,
                    wireFaults, torn, cut>>
      BY <1>3 DEF wvars, rvars, fvars
  <2>2. Aligned => Aligned'
      BY <2>1, AlignedKeeps DEF AwaitsBody
  <2>3. Over => Over'
      BY <1>3, <2>1 DEF Over, AwaitsBody
  <2> QED
      BY <2>1, <2>2, <2>3 DEF CauseOK, Clean
<1>4. CASE CloseSender \/ CloseReceiver
    BY <1>3, <1>4 DEF CloseSender, CloseReceiver
<1>5. CASE Corrupt \/ Lose \/ Duplicate
  <2>1. wireFaults \in Nat /\ wireFaults' = wireFaults + 1
      BY <1>5, TypeParts DEF Inv, FaultType, Corrupt, Lose, Duplicate, Damage
  <2> QED
      BY <2>1 DEF CauseOK, Clean
<1>6. CASE UNCHANGED vars
    BY <1>3, <1>6 DEF vars
<1> QED
    BY <1>1, <1>2, <1>4, <1>5, <1>6 DEF Next

\* Read reports a malformed, oversize, unauthentic or surplus frame only after
\* something damaged the stream.
THEOREM ErrorsNeedDamage == Spec => []ErrorsHaveCause
<1>1. Init => LengthsOK /\ CauseOK
  <2> SUFFICES ASSUME Init PROVE LengthsOK /\ CauseOK
      OBVIOUS
  <2>1. /\ Len(records) = 0 /\ Len(wire) = 0 /\ readSeq = 0 /\ readErrs = {}
        /\ ~AwaitsBody
        /\ \A w \in Writers : wpc[w] = "idle"
      BY DEF Init, AwaitsBody
  <2>2. 1..Len(records) = {} /\ 1..Len(wire) = {}
      BY <2>1
  <2>3. WritePos = Start(1) /\ ReadPos = Start(1) + 0 /\ Start(1) = 0
    <3>1. WritePos = Start(Len(records) + 1) /\ Len(records) + 1 = 1
          /\ readSeq + 1 = 1
        BY <2>1 DEF WritePos
    <3> QED
        BY <2>1, <3>1, SizeAssumption DEF ReadPos, Start, End
  <2>4. Aligned
      BY <2>1, <2>2, <2>3 DEF Aligned
  <2> QED
      BY <2>1, <2>2, <2>4 DEF LengthsOK, CauseOK
<1>2. Inv /\ LengthsOK /\ [Next]_vars => LengthsOK'
    BY LengthsOKStep DEF Inv
<1>3. Inv /\ Inv' /\ LengthsOK /\ CauseOK /\ [Next]_vars => CauseOK'
    BY CauseOKStep
<1>4. CauseOK => ErrorsHaveCause
    BY DEF CauseOK, Clean, ErrorsHaveCause
<1> QED
    BY <1>1, <1>2, <1>3, <1>4, Invariance, PTL DEF Spec
=============================================================================
