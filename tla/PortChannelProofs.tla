------------------------- MODULE PortChannelProofs -------------------------
(***************************************************************************)
(* Theorems about PortChannel, for any number of calls of send and recv in *)
(* flight, any sizes and any point at which a write is rejected or the     *)
(* stream is closed.                                                       *)
(***************************************************************************)
EXTENDS PortChannel, SequenceTheorems, TLAPS

Cells == {"hdr", "body"} \X Nat \X Nat
Rec   == [nonce : Nat, len : Nat \ {0}]

CtLen(k)    == records[k].len + Overhead
FrameLen(k) == HdrSize + CtLen(k)

Types ==
    /\ txSeq \in Nat /\ rxSeq \in Nat /\ rejections \in Nat
    /\ spc \in [Senders -> {"idle", "header", "payload", "rejected"}]
    /\ left \in [Senders -> Nat]
    /\ rec \in [Senders -> Nat]
    /\ records \in Seq(Rec)
    /\ wire \in Seq(Cells)
    /\ open \in BOOLEAN /\ awaited \in BOOLEAN
    /\ torn \in BOOLEAN /\ failed \in BOOLEAN
    /\ rpc \in [Receivers -> {"idle", "header", "payload"}]
    /\ got \in [Receivers -> Seq(Cells)]
    /\ reads \in Seq(Receivers \X (Nat \ {0}))
    /\ received \in Seq(Nat)

\* Sequence numbers count the records, sealed and received.
SeqOK ==
    /\ txSeq = Len(records) /\ txSeq <= SeqMax
    /\ \A k \in 1..Len(records) : /\ records[k].nonce = k - 1
                                  /\ CtLen(k) <= MaxFrameSize
    /\ rxSeq = Len(received) /\ rxSeq <= Len(records)
    /\ \A i \in 1..Len(received) : received[i] = i

\* A send that wrote its header works on a record that exists; when callers
\* await each call, on the last one, and it is the only one.
SendOK ==
    /\ \A s \in Senders : spc[s] = "header" => rec[s] \in 1..Len(records)
    /\ awaited =>
          /\ \A s, t \in Senders : spc[s] # "idle" /\ spc[t] # "idle" => s = t
          /\ \A s \in Senders : spc[s] = "header" => rec[s] = Len(records)

\* When callers await each call, the one recv in progress is the only reader of
\* the stream.
RecvOK ==
    awaited =>
        /\ \A r, q \in Receivers : rpc[r] # "idle" /\ rpc[q] # "idle" => r = q
        /\ (\A r \in Receivers : rpc[r] = "idle") => reads = <<>>
        /\ \A r \in Receivers : rpc[r] # "idle" =>
              IF got[r] # <<>> THEN reads = <<>>
              ELSE /\ Len(reads) = 1 /\ reads[1][1] = r
                   /\ rpc[r] = "header" => reads[1][2] = HdrSize

Inv == Types /\ SeqOK /\ SendOK /\ RecvOK

-----------------------------------------------------------------------------
(***************************************************************************)
(* Sequences.                                                              *)
(***************************************************************************)

\* A function on 1..n is a sequence of length n.
LEMMA TableFact ==
    ASSUME NEW T, NEW n \in Nat, NEW f \in [1..n -> T]
    PROVE  f \in Seq(T) /\ Len(f) = n
<1>1. f \in Seq(T)
    BY IsASeq
<1>2. DOMAIN f = 1..n
    OBVIOUS
<1> QED
    BY <1>1, <1>2, LenProperties

\* A part of a sequence, by position.
LEMMA PieceFact ==
    ASSUME NEW T, NEW s \in Seq(T), NEW n \in 0..Len(s)
    PROVE  /\ SubSeq(s, 1, n) \in Seq(T)
           /\ Len(SubSeq(s, 1, n)) = n
           /\ \A i \in 1..n : SubSeq(s, 1, n)[i] = s[i]
           /\ SubSeq(s, n + 1, Len(s)) \in Seq(T)
           /\ Len(SubSeq(s, n + 1, Len(s))) = Len(s) - n
           /\ \A i \in 1..(Len(s) - n) : SubSeq(s, n + 1, Len(s))[i] = s[n + i]
BY SubSeqProperties

\* Concatenation, by position.
LEMMA ConcatFact ==
    ASSUME NEW T, NEW s \in Seq(T), NEW t \in Seq(T)
    PROVE  /\ s \o t \in Seq(T)
           /\ Len(s \o t) = Len(s) + Len(t)
           /\ \A i \in 1..Len(s) : (s \o t)[i] = s[i]
           /\ \A i \in 1..Len(t) : (s \o t)[Len(s) + i] = t[i]
BY ConcatProperties

\* The cells of a header.
LEMMA HdrFact ==
    ASSUME NEW n \in Nat
    PROVE  /\ Hdr(n) \in Seq(Cells) /\ Len(Hdr(n)) = HdrSize
           /\ \A i \in 1..HdrSize : Hdr(n)[i] = <<"hdr", n, i>>
<1>1. Hdr(n) \in [1..HdrSize -> Cells]
    BY PortAssumption DEF Hdr, Cells
<1>2. \A i \in 1..HdrSize : Hdr(n)[i] = <<"hdr", n, i>>
    BY DEF Hdr
<1>3. HdrSize \in Nat
    BY PortAssumption
<1> QED
    BY <1>1, <1>2, <1>3, TableFact

\* The cells of a payload.
LEMMA BodyFact ==
    ASSUME NEW j \in Nat, NEW n \in Nat
    PROVE  /\ Body(j, n) \in Seq(Cells) /\ Len(Body(j, n)) = n
           /\ \A i \in 1..n : Body(j, n)[i] = <<"body", j, i>>
<1>1. Body(j, n) \in [1..n -> Cells]
    BY DEF Body, Cells
<1>2. \A i \in 1..n : Body(j, n)[i] = <<"body", j, i>>
    BY DEF Body
<1> QED
    BY <1>1, <1>2, TableFact

\* Lengths are natural numbers, and so are those of frames.
LEMMA Lengths ==
    ASSUME Types
    PROVE  /\ Len(records) \in Nat /\ Len(wire) \in Nat /\ Len(reads) \in Nat
           /\ Len(received) \in Nat
           /\ \A k \in 1..Len(records) :
                 /\ records[k] \in Rec /\ CtLen(k) \in Nat \ {0}
                 /\ FrameLen(k) \in Nat /\ FrameLen(k) = HdrSize + CtLen(k)
<1>1. ASSUME NEW k \in 1..Len(records)
      PROVE  /\ records[k] \in Rec /\ CtLen(k) \in Nat \ {0}
             /\ FrameLen(k) \in Nat /\ FrameLen(k) = HdrSize + CtLen(k)
  <2>1. records[k] \in Rec
      BY ElementOfSeq DEF Types
  <2> QED
      BY <2>1, PortAssumption DEF Rec, CtLen, FrameLen
<1> QED
    BY <1>1, LenProperties DEF Types

-----------------------------------------------------------------------------
(***************************************************************************)
(* What the steps do.                                                      *)
(***************************************************************************)

\* A write hands over all its bytes, or is rejected.
LEMMA WriteFact ==
    ASSUME Types, NEW s \in Senders, NEW bytes \in Seq(Cells), bytes # <<>>,
           NEW await \in {"header", "payload"}, WriteThenAwait(s, bytes, await)
    PROVE  /\ wire' \in Seq(Cells) /\ rejections' \in Nat
           /\ \/ open /\ wire' = wire \o bytes /\ spc' = [spc EXCEPT ![s] = await]
              \/ spc' = [spc EXCEPT ![s] = "rejected"]
<1>a. Len(bytes) \in Nat \ {0}
    BY EmptySeq, LenProperties
<1>1. CASE /\ open
           /\ wire' = wire \o bytes
           /\ spc' = [spc EXCEPT ![s] = await]
           /\ UNCHANGED rejections
    BY <1>1, ConcatFact DEF Types
<1>2. CASE /\ rejections' = IF open THEN rejections + 1 ELSE rejections
           /\ \E n \in 0..(IF open THEN Len(bytes) - 1 ELSE 0) :
                 wire' = wire \o SubSeq(bytes, 1, n)
           /\ spc' = [spc EXCEPT ![s] = "rejected"]
  <2>1. PICK n \in 0..Len(bytes) : wire' = wire \o SubSeq(bytes, 1, n)
    <3>1. PICK n \in 0..(IF open THEN Len(bytes) - 1 ELSE 0) :
              wire' = wire \o SubSeq(bytes, 1, n)
        BY <1>2
    <3>2. n \in 0..Len(bytes)
        BY <1>a
    <3> QED
        BY <3>1, <3>2
  <2>2. wire' \in Seq(Cells)
      BY <2>1, PieceFact, ConcatFact DEF Types
  <2> QED
      BY <1>2, <2>2 DEF Types
<1> QED
    BY <1>1, <1>2 DEF WriteThenAwait

\* A turn of send's loop seals one record under the next number.
LEMMA ChunkFact ==
    ASSUME Types, SeqOK, NEW s \in Senders, NEW n \in Nat \ {0}, Chunk(s, n)
    PROVE  /\ records' \in Seq(Rec) /\ Len(records') = Len(records) + 1
           /\ \A k \in 1..Len(records) : records'[k] = records[k]
           /\ records'[Len(records) + 1].nonce = Len(records)
           /\ records'[Len(records) + 1].len + Overhead \in 1..MaxFrameSize
           /\ txSeq' = Len(records') /\ txSeq' <= SeqMax
           /\ left' \in [Senders -> Nat]
           /\ rec' \in [Senders -> Nat] /\ rec'[s] = Len(records')
           /\ \A t \in Senders : t # s => rec'[t] = rec[t]
           /\ wire' \in Seq(Cells) /\ rejections' \in Nat
           /\ \/ /\ open
                 /\ wire' = wire \o Hdr(records'[Len(records) + 1].len + Overhead)
                 /\ spc' = [spc EXCEPT ![s] = "header"]
              \/ spc' = [spc EXCEPT ![s] = "rejected"]
<1> DEFINE len == IF n < maxPlain THEN n ELSE maxPlain
           new == [nonce |-> nonceFor(txSeq), len |-> len]
<1>1. len \in Nat \ {0} /\ len <= n /\ len + Overhead \in 1..MaxFrameSize
    BY PortAssumption DEF maxPlain
<1>2. nonceFor(txSeq) = txSeq /\ txSeq + 1 <= SeqMax
  <2>1. txSeq \in Nat /\ txSeq <= SeqMax /\ txSeq # SeqMax /\ SeqMax \in Nat
      BY PortAssumption DEF Chunk, Exhausted, Types, SeqOK
  <2>2. txSeq % (SeqMax + 1) = txSeq
      BY <2>1
  <2> QED
      BY <2>1, <2>2 DEF nonceFor
<1>3. new \in Rec /\ new.len = len /\ new.nonce = Len(records)
    BY <1>1, <1>2 DEF Rec, Types, SeqOK
<1>4. /\ records' = Append(records, new)
      /\ left' = [left EXCEPT ![s] = n - len]
      /\ WriteThenAwait(s, Hdr(len + Overhead), "header")
      /\ txSeq' = txSeq + 1
      /\ rec' = [rec EXCEPT ![s] = Len(records')]
    BY DEF Chunk, TakeSeq
<1> HIDE DEF len, new
<1>5. /\ records' \in Seq(Rec) /\ Len(records') = Len(records) + 1
      /\ \A k \in 1..Len(records) : records'[k] = records[k]
      /\ records'[Len(records) + 1] = new
    BY <1>3, <1>4, AppendProperties DEF Types
<1>6. Len(records) \in Nat /\ Len(records') \in Nat
    BY <1>5, Lengths
<1>7. txSeq' = Len(records') /\ txSeq' <= SeqMax
    BY <1>2, <1>4, <1>5 DEF SeqOK
<1>8. left' \in [Senders -> Nat]
    BY <1>1, <1>4 DEF Types
<1>9. /\ rec' \in [Senders -> Nat] /\ rec'[s] = Len(records')
      /\ \A t \in Senders : t # s => rec'[t] = rec[t]
    BY <1>4, <1>6 DEF Types
<1>10. PICK m \in Nat : m = len + Overhead
    BY <1>1
<1>11. Hdr(m) \in Seq(Cells) /\ Hdr(m) # <<>>
    BY HdrFact, PortAssumption
<1>12. /\ wire' \in Seq(Cells) /\ rejections' \in Nat
       /\ \/ /\ open /\ wire' = wire \o Hdr(m)
             /\ spc' = [spc EXCEPT ![s] = "header"]
          \/ spc' = [spc EXCEPT ![s] = "rejected"]
    BY <1>4, <1>10, <1>11, WriteFact
<1> QED
    BY <1>1, <1>3, <1>5, <1>7, <1>8, <1>9, <1>10, <1>12

\* When callers await each call, a read the stream has yet to serve belongs to
\* the recv in progress, and is the only one.
LEMMA ReadsFact ==
    ASSUME Types, RecvOK, reads # <<>>
    PROVE  /\ Head(reads) = reads[1] /\ reads[1] \in Receivers \X (Nat \ {0})
           /\ Tail(reads) \in Seq(Receivers \X (Nat \ {0}))
           /\ awaited => /\ Tail(reads) = <<>>
                         /\ rpc[reads[1][1]] # "idle" /\ got[reads[1][1]] = <<>>
<1>1. reads \in Seq(Receivers \X (Nat \ {0}))
    BY DEF Types
<1>2. /\ Head(reads) = reads[1] /\ reads[1] \in Receivers \X (Nat \ {0})
      /\ Tail(reads) \in Seq(Receivers \X (Nat \ {0}))
      /\ Len(Tail(reads)) = Len(reads) - 1
    BY <1>1, HeadTailProperties, EmptySeq, ElementOfSeq, LenProperties
<1>3. ASSUME awaited
      PROVE  Tail(reads) = <<>> /\ rpc[reads[1][1]] # "idle"
             /\ got[reads[1][1]] = <<>>
  <2>1. PICK q \in Receivers : rpc[q] # "idle"
      BY <1>3 DEF RecvOK
  <2>2. got[q] = <<>> /\ Len(reads) = 1 /\ reads[1][1] = q
      BY <1>3, <2>1 DEF RecvOK
  <2>3. Tail(reads) = <<>>
    <3>1. Len(Tail(reads)) = 0
        BY <1>2, <2>2
    <3>2. Tail(reads) # <<>> => Len(Tail(reads)) \in Nat \ {0}
        BY <1>2, EmptySeq
    <3> QED
        BY <3>1, <3>2
  <2> QED
      BY <2>1, <2>2, <2>3
<1> QED
    BY <1>2, <1>3

\* Every step of send.
LEMMA SendInv ==
    ASSUME Inv, NEW s \in Senders, Send(s) \/ SendStep(s)
    PROVE  Inv'
<1>a. Types /\ SeqOK /\ SendOK /\ RecvOK
    BY DEF Inv
<1>b. Len(records) \in Nat
    BY <1>a, Lengths
<1>c. UNCHANGED <<env, rvars>>
    BY DEF Send, SendStep, SendPayload, SendMore, SendReturns, SendThrows
<1>d. UNCHANGED <<open, awaited, rxSeq, rpc, got, reads, received, failed>>
    BY <1>c DEF env, rvars
<1>1. RecvOK'
    BY <1>a, <1>d DEF RecvOK
<1>2. ASSUME NEW n \in Nat \ {0}, Chunk(s, n), UNCHANGED torn,
             awaited => \A t \in Senders : t # s => spc[t] = "idle"
      PROVE  Inv'
  <2>1. /\ records' \in Seq(Rec) /\ Len(records') = Len(records) + 1
        /\ \A k \in 1..Len(records) : records'[k] = records[k]
        /\ records'[Len(records) + 1].nonce = Len(records)
        /\ records'[Len(records) + 1].len + Overhead \in 1..MaxFrameSize
        /\ txSeq' = Len(records') /\ txSeq' <= SeqMax
        /\ left' \in [Senders -> Nat]
        /\ rec' \in [Senders -> Nat] /\ rec'[s] = Len(records')
        /\ \A t \in Senders : t # s => rec'[t] = rec[t]
        /\ wire' \in Seq(Cells) /\ rejections' \in Nat
        /\ \/ spc' = [spc EXCEPT ![s] = "header"]
           \/ spc' = [spc EXCEPT ![s] = "rejected"]
      BY <1>2, <1>a, ChunkFact
  <2>2. Types'
    <3>1. txSeq' \in Nat
        BY <1>b, <2>1
    <3>2. spc' \in [Senders -> {"idle", "header", "payload", "rejected"}]
        BY <1>a, <2>1 DEF Types
    <3> QED
        BY <1>2, <1>a, <1>d, <2>1, <3>1, <3>2 DEF Types
  <2>3. \A k \in 1..Len(records') :
            /\ records'[k].nonce = k - 1
            /\ records'[k].len + Overhead <= MaxFrameSize
    <3> TAKE k \in 1..Len(records')
    <3>1. k \in 1..Len(records) \/ k = Len(records) + 1
        BY <1>b, <2>1
    <3>2. \A i \in 1..Len(records) : /\ records[i].nonce = i - 1
                                     /\ records[i].len + Overhead <= MaxFrameSize
        BY <1>a DEF SeqOK, CtLen
    <3>3. CASE k \in 1..Len(records)
        BY <2>1, <3>2, <3>3
    <3>4. CASE k = Len(records) + 1
        BY <1>b, <2>1, <3>4, PortAssumption
    <3> QED
        BY <3>1, <3>3, <3>4
  <2>4. SeqOK'
    <3>1. rxSeq' <= Len(records')
        BY <1>a, <1>b, <1>d, <2>1 DEF SeqOK, Types
    <3> QED
        BY <1>a, <1>d, <2>1, <2>3, <3>1 DEF SeqOK, CtLen
  <2>5. SendOK'
    <3>1. \A t \in Senders : /\ t # s => spc'[t] = spc[t]
                             /\ t = s => spc'[t] \in {"header", "rejected"}
        BY <1>a, <2>1 DEF Types
    <3>2. Len(records') \in 1..Len(records') /\ 1..Len(records) \subseteq 1..Len(records')
        BY <1>b, <2>1
    <3> QED
        BY <1>2, <1>a, <1>d, <2>1, <3>1, <3>2 DEF SendOK
  <2> QED
      BY <1>1, <2>2, <2>4, <2>5 DEF Inv
<1>3. CASE Send(s)
  <2>1. PICK n \in SendSizes : Chunk(s, n)
      BY <1>3 DEF Send
  <2>2. n \in Nat \ {0} /\ UNCHANGED torn
      BY <1>3, PortAssumption DEF Send
  <2>3. awaited => \A t \in Senders : spc[t] = "idle"
      BY <1>3, <1>a DEF Send, MayCall, Types
  <2> QED
      BY <1>2, <2>1, <2>2, <2>3
<1>4. CASE SendMore(s)
  <2>1. left[s] \in Nat \ {0} /\ Chunk(s, left[s]) /\ UNCHANGED torn
      BY <1>4, <1>a DEF SendMore, Types
  <2>2. awaited => \A t \in Senders : t # s => spc[t] = "idle"
      BY <1>4, <1>a DEF SendMore, SendOK
  <2> QED
      BY <1>2, <2>1, <2>2
<1>5. ASSUME UNCHANGED <<txSeq, left, rec, records>>, Types',
             \A t \in Senders : t # s => spc'[t] = spc[t],
             spc[s] # "idle", spc'[s] # "header"
      PROVE  Inv'
  <2>1. SeqOK'
      BY <1>5, <1>a, <1>d DEF SeqOK, CtLen
  <2>2. SendOK'
      BY <1>5, <1>a, <1>d DEF SendOK
  <2> QED
      BY <1>1, <1>5, <2>1, <2>2 DEF Inv
<1>6. CASE SendPayload(s)
  <2>1. spc[s] = "header" /\ rec[s] \in 1..Len(records)
        /\ UNCHANGED <<txSeq, left, rec, records, torn>>
      BY <1>6, <1>a DEF SendPayload, SendOK
  <2>2. PICK b : b = Body(rec[s], CtLen(rec[s]))
      OBVIOUS
  <2>3. b \in Seq(Cells) /\ b # <<>>
    <3>1. rec[s] \in Nat /\ CtLen(rec[s]) \in Nat \ {0}
        BY <1>a, <1>b, <2>1, Lengths
    <3>2. b \in Seq(Cells) /\ Len(b) = CtLen(rec[s])
        BY <2>2, <3>1, BodyFact
    <3> QED
        BY <3>1, <3>2
  <2>4. WriteThenAwait(s, b, "payload")
      BY <1>6, <2>2 DEF SendPayload, CtLen
  <2>5. /\ wire' \in Seq(Cells) /\ rejections' \in Nat
        /\ \/ spc' = [spc EXCEPT ![s] = "payload"]
           \/ spc' = [spc EXCEPT ![s] = "rejected"]
      BY <1>a, <2>3, <2>4, WriteFact
  <2>6. Types'
      BY <1>a, <1>d, <2>1, <2>5 DEF Types
  <2>7. spc'[s] # "header" /\ \A t \in Senders : t # s => spc'[t] = spc[t]
      BY <1>a, <2>5 DEF Types
  <2> QED
      BY <1>5, <2>1, <2>6, <2>7
<1>7. CASE SendReturns(s) \/ SendThrows(s)
  <2>1. /\ spc[s] # "idle" /\ spc' = [spc EXCEPT ![s] = "idle"]
        /\ UNCHANGED <<txSeq, left, rec, records, wire, rejections>>
        /\ torn' \in BOOLEAN
      BY <1>7, <1>a DEF SendReturns, SendThrows, Types
  <2>2. Types'
      BY <1>a, <1>d, <2>1 DEF Types
  <2>3. spc'[s] # "header" /\ \A t \in Senders : t # s => spc'[t] = spc[t]
      BY <1>a, <2>1 DEF Types
  <2> QED
      BY <1>5, <2>1, <2>2, <2>3
<1> QED
    BY <1>3, <1>4, <1>6, <1>7 DEF SendStep

\* Every step of recv and of the stream.
LEMMA RecvInv ==
    ASSUME Inv,
           \/ \E r \in Receivers : Recv(r) \/ RecvStep(r)
           \/ ServeRead \/ RecvEnds \/ CloseStream \/ UNCHANGED vars
    PROVE  Inv'
<1>a. Types /\ SeqOK /\ SendOK /\ RecvOK
    BY DEF Inv
<1>b. Len(records) \in Nat /\ Len(received) \in Nat /\ Len(wire) \in Nat
    BY <1>a, Lengths
<1> DEFINE Calls == Receivers \X (Nat \ {0})
<1>c. UNCHANGED <<svars, awaited>>
    BY DEF Recv, RecvStep, RecvHeader, RecvBadLength, RecvOpens, RecvCorrupted,
           RecvThrows, ServeRead, RecvEnds, CloseStream, vars, env
<1>d. UNCHANGED <<txSeq, spc, left, rec, records, torn, rejections, awaited>>
    BY <1>c DEF svars
<1>e. SendOK'
    BY <1>a, <1>d DEF SendOK
<1>f. ASSUME UNCHANGED <<rxSeq, received>> PROVE SeqOK'
    BY <1>a, <1>d, <1>f DEF SeqOK, CtLen
<1>1. ASSUME NEW r \in Receivers, Recv(r) PROVE Inv'
  <2>1. /\ rpc' = [rpc EXCEPT ![r] = "header"] /\ got' = [got EXCEPT ![r] = <<>>]
        /\ reads' = Append(reads, <<r, HdrSize>>)
        /\ UNCHANGED <<rxSeq, received, failed, wire, open>>
      BY <1>1 DEF Recv, env
  <2>2. <<r, HdrSize>> \in Calls
      BY PortAssumption
  <2>3. /\ reads' \in Seq(Calls) /\ Len(reads') = Len(reads) + 1
        /\ reads'[Len(reads) + 1] = <<r, HdrSize>>
      BY <1>a, <2>1, <2>2, AppendProperties DEF Types
  <2>4. Types'
      BY <1>a, <1>d, <2>1, <2>3 DEF Types
  <2>5. RecvOK'
    <3> SUFFICES ASSUME awaited PROVE RecvOK'
        BY <1>d DEF RecvOK
    <3>1. \A q \in Receivers : rpc[q] = "idle"
        BY <1>1, <1>a DEF Recv, MayCall, Types
    <3>2. Len(reads) = 0
        BY <1>a, <3>1 DEF RecvOK
    <3>3. Len(reads') = 1 /\ reads'[1] = <<r, HdrSize>>
        BY <2>3, <3>2
    <3>4. \A q \in Receivers : IF q = r THEN rpc'[q] = "header" /\ got'[q] = <<>>
                                        ELSE rpc'[q] = "idle"
        BY <1>a, <2>1, <3>1 DEF Types
    <3> QED
        BY <3>3, <3>4 DEF RecvOK
  <2> QED
      BY <1>e, <1>f, <2>1, <2>4, <2>5 DEF Inv
<1>2. CASE ServeRead
  <2>1. PICK q, n : q = reads[1][1] /\ n = reads[1][2]
      OBVIOUS
  <2>2. /\ reads # <<>> /\ q \in Receivers /\ n \in Nat \ {0}
        /\ Head(reads) = reads[1]
        /\ Tail(reads) \in Seq(Calls)
        /\ awaited => Tail(reads) = <<>> /\ rpc[q] # "idle" /\ got[q] = <<>>
      BY <1>2, <1>a, <2>1, ReadsFact DEF ServeRead
  <2>3. /\ n <= Len(wire) /\ got' = [got EXCEPT ![q] = SubSeq(wire, 1, n)]
        /\ wire' = SubSeq(wire, n + 1, Len(wire)) /\ reads' = Tail(reads)
        /\ UNCHANGED <<rxSeq, rpc, received, failed, open>>
      BY <1>2, <1>b, <2>1, <2>2 DEF ServeRead, env
  <2>4. SubSeq(wire, 1, n) \in Seq(Cells) /\ SubSeq(wire, 1, n) # <<>>
        /\ wire' \in Seq(Cells)
    <3>1. n \in 0..Len(wire) /\ wire \in Seq(Cells)
        BY <1>a, <1>b, <2>2, <2>3 DEF Types
    <3>2. SubSeq(wire, 1, n) \in Seq(Cells) /\ Len(SubSeq(wire, 1, n)) = n
          /\ SubSeq(wire, n + 1, Len(wire)) \in Seq(Cells)
        BY <3>1, PieceFact
    <3> QED
        BY <2>2, <2>3, <3>2
  <2>5. Types'
      BY <1>a, <1>d, <2>2, <2>3, <2>4 DEF Types
  <2>6. RecvOK'
    <3> SUFFICES ASSUME awaited PROVE RecvOK'
        BY <1>d DEF RecvOK
    <3>1. reads' = <<>> /\ rpc[q] # "idle"
        BY <2>2, <2>3
    <3>2. \A p \in Receivers : rpc[p] # "idle" => p = q
        BY <1>a, <2>2, <3>1 DEF RecvOK
    <3>3. got'[q] # <<>>
        BY <1>a, <2>2, <2>3, <2>4 DEF Types
    <3> QED
        BY <2>3, <3>1, <3>2, <3>3 DEF RecvOK
  <2> QED
      BY <1>e, <1>f, <2>3, <2>5, <2>6 DEF Inv
<1>3. CASE RecvEnds
  <2>1. PICK q : q = reads[1][1]
      OBVIOUS
  <2>2. /\ reads # <<>> /\ q \in Receivers
        /\ Head(reads) = reads[1]
        /\ Tail(reads) \in Seq(Calls)
        /\ awaited => Tail(reads) = <<>> /\ rpc[q] # "idle"
      BY <1>3, <1>a, <2>1, ReadsFact DEF RecvEnds
  <2>3. /\ rpc' = [rpc EXCEPT ![q] = "idle"] /\ reads' = Tail(reads)
        /\ wire' \in {wire, <<>>}
        /\ UNCHANGED <<rxSeq, got, received, failed, open>>
      BY <1>3, <2>1, <2>2 DEF RecvEnds, env
  <2>4. wire' \in Seq(Cells)
      BY <1>a, <2>3, EmptySeq DEF Types
  <2>5. Types'
      BY <1>a, <1>d, <2>2, <2>3, <2>4 DEF Types
  <2>6. RecvOK'
    <3> SUFFICES ASSUME awaited PROVE RecvOK'
        BY <1>d DEF RecvOK
    <3>1. \A p \in Receivers : rpc'[p] = "idle"
        BY <1>a, <2>2, <2>3 DEF RecvOK, Types
    <3> QED
        BY <2>2, <2>3, <3>1 DEF RecvOK
  <2> QED
      BY <1>e, <1>f, <2>3, <2>5, <2>6 DEF Inv
<1>4. ASSUME NEW r \in Receivers, RecvHeader(r) PROVE Inv'
  <2>1. PICK n \in HeaderValues(got[r]) :
            GoodLength(n) /\ reads' = Append(reads, <<r, n>>)
      BY <1>4 DEF RecvHeader
  <2>2. n \in Nat \ {0}
      BY <2>1, PortAssumption DEF HeaderValues, GoodLength
  <2>3. /\ rpc' = [rpc EXCEPT ![r] = "payload"] /\ got' = [got EXCEPT ![r] = <<>>]
        /\ UNCHANGED <<rxSeq, received, failed, wire, open>>
        /\ rpc[r] = "header" /\ got[r] # <<>>
      BY <1>4 DEF RecvHeader, HasHeader, env
  <2>4. <<r, n>> \in Calls
      BY <2>2
  <2>5. /\ reads' \in Seq(Calls) /\ Len(reads') = Len(reads) + 1
        /\ reads'[Len(reads) + 1] = <<r, n>>
      BY <1>a, <2>1, <2>4, AppendProperties DEF Types
  <2>6. Types'
      BY <1>a, <1>d, <2>3, <2>5 DEF Types
  <2>7. RecvOK'
    <3> SUFFICES ASSUME awaited PROVE RecvOK'
        BY <1>d DEF RecvOK
    <3>1. Len(reads) = 0 /\ \A q \in Receivers : rpc[q] # "idle" => q = r
        BY <1>a, <2>3 DEF RecvOK
    <3>2. Len(reads') = 1 /\ reads'[1] = <<r, n>>
        BY <2>5, <3>1
    <3>3. \A q \in Receivers : IF q = r THEN rpc'[q] = "payload" /\ got'[q] = <<>>
                                        ELSE rpc'[q] = "idle"
        BY <1>a, <2>3, <3>1 DEF Types
    <3> QED
        BY <3>2, <3>3 DEF RecvOK
  <2> QED
      BY <1>e, <1>f, <2>3, <2>6, <2>7 DEF Inv
<1>5. ASSUME NEW r \in Receivers, rpc[r] # "idle", got[r] # <<>>,
             rpc' = [rpc EXCEPT ![r] = "idle"], UNCHANGED <<reads, got>>
      PROVE  RecvOK'
  <2> SUFFICES ASSUME awaited PROVE RecvOK'
      BY <1>d DEF RecvOK
  <2>1. reads = <<>> /\ \A q \in Receivers : rpc[q] # "idle" => q = r
      BY <1>5, <1>a DEF RecvOK
  <2>2. \A q \in Receivers : rpc'[q] = "idle"
      BY <1>5, <1>a, <2>1 DEF Types
  <2> QED
      BY <1>5, <2>1, <2>2 DEF RecvOK
<1>6. ASSUME NEW r \in Receivers, RecvBadLength(r) \/ RecvCorrupted(r) PROVE Inv'
  <2>1. /\ rpc[r] # "idle" /\ got[r] # <<>> /\ rpc' = [rpc EXCEPT ![r] = "idle"]
        /\ failed' = TRUE /\ UNCHANGED <<rxSeq, got, reads, received, wire, open>>
      BY <1>6 DEF RecvBadLength, RecvCorrupted, RecvThrows, HasHeader, HasFrame, env
  <2>2. Types'
      BY <1>a, <1>d, <2>1 DEF Types
  <2> QED
      BY <1>5, <1>e, <1>f, <2>1, <2>2 DEF Inv
<1>7. ASSUME NEW r \in Receivers, RecvOpens(r) PROVE Inv'
  <2>1. PICK j \in 1..Len(records) :
            Opens(got[r], rxSeq, j) /\ received' = Append(received, j)
      BY <1>7 DEF RecvOpens
  <2>2. /\ rpc[r] # "idle" /\ got[r] # <<>> /\ rpc' = [rpc EXCEPT ![r] = "idle"]
        /\ rxSeq' = rxSeq + 1 /\ UNCHANGED <<got, reads, failed, wire, open>>
      BY <1>7 DEF RecvOpens, HasFrame, env
  <2>3. j = rxSeq + 1
    <3>1. rxSeq \in Nat /\ rxSeq <= SeqMax /\ SeqMax \in Nat
        BY <1>a, <1>b, PortAssumption DEF SeqOK, Types
    <3>2. rxSeq % (SeqMax + 1) = rxSeq
        BY <3>1
    <3>3. records[j].nonce = rxSeq /\ records[j].nonce = j - 1
        BY <1>a, <2>1, <3>2 DEF Opens, nonceFor, SeqOK
    <3> QED
        BY <1>b, <3>1, <3>3
  <2>4. /\ received' \in Seq(Nat) /\ Len(received') = Len(received) + 1
        /\ \A i \in 1..Len(received) : received'[i] = received[i]
        /\ received'[Len(received) + 1] = j
    <3>1. j \in Nat /\ received \in Seq(Nat)
        BY <1>a, <1>b DEF Types
    <3> QED
        BY <2>1, <3>1, AppendProperties
  <2>5. Types'
      BY <1>a, <1>d, <2>2, <2>4 DEF Types
  <2>6. \A i \in 1..Len(received') : received'[i] = i
    <3> TAKE i \in 1..Len(received')
    <3>1. i \in 1..Len(received) \/ i = Len(received) + 1
        BY <1>b, <2>4
    <3> QED
        BY <1>a, <2>3, <2>4, <3>1 DEF SeqOK
  <2>7. rxSeq' = Len(received') /\ rxSeq' <= Len(records)
      BY <1>a, <1>b, <2>2, <2>3, <2>4 DEF SeqOK
  <2>8. SeqOK'
      BY <1>a, <1>d, <2>6, <2>7 DEF SeqOK, CtLen
  <2> QED
      BY <1>5, <1>e, <2>2, <2>5, <2>8 DEF Inv
<1>8. CASE CloseStream \/ UNCHANGED vars
  <2>1. open' \in BOOLEAN /\ UNCHANGED <<wire, rvars>>
      BY <1>8, <1>a DEF CloseStream, vars, env, Types
  <2>2. UNCHANGED <<wire, rxSeq, rpc, got, reads, received, failed>>
      BY <2>1 DEF rvars
  <2>3. Types' /\ RecvOK'
      BY <1>a, <1>d, <2>1, <2>2 DEF Types, RecvOK
  <2> QED
      BY <1>e, <1>f, <2>2, <2>3 DEF Inv
<1> QED
    BY <1>1, <1>2, <1>3, <1>4, <1>6, <1>7, <1>8 DEF RecvStep

\* The base invariant.
LEMMA Invariance == Spec => []Inv
<1>1. Init => Inv
  <2> SUFFICES ASSUME Init PROVE Inv
      OBVIOUS
  <2>1. Types
      BY EmptySeq DEF Init, Types
  <2>2. Len(records) = 0 /\ Len(received) = 0
      BY DEF Init
  <2> QED
      BY <2>1, <2>2, PortAssumption DEF Init, Inv, SeqOK, SendOK, RecvOK
<1>2. Inv /\ [Next]_vars => Inv'
    BY SendInv, RecvInv DEF Next
<1> QED
    BY <1>1, <1>2, PTL DEF Spec

\* No nonce is used twice, whatever sends are in flight and fail.
THEOREM PortNoncesNeverRepeat == Spec => []NonceUnique
<1>1. Inv => NonceUnique
    BY Lengths DEF Inv, SeqOK, NonceUnique
<1> QED
    BY <1>1, Invariance, PTL

\* recv returns the records in order, without gap or repetition.
THEOREM PortRecordsInOrder == Spec => []RecordsInOrder
<1>1. Inv => RecordsInOrder
    BY DEF Inv, SeqOK, RecordsInOrder
<1> QED
    BY <1>1, Invariance, PTL

-----------------------------------------------------------------------------
(***************************************************************************)
(* When callers await each call and no send has failed, what is in transit *)
(* is the stretch of frames between where the reader is and where the      *)
(* writer is, both counted in bytes since the channel began.               *)
(***************************************************************************)

\* S[k] is the number of bytes of all frames before frame k.
Tiles(S) ==
    /\ S \in [1..(Len(records) + 1) -> Nat]
    /\ \A k \in 1..Len(records) : S[k + 1] = S[k] + FrameLen(k)
    /\ \A i \in 1..Len(records), j \in 1..(Len(records) + 1) :
          i < j => S[i] + FrameLen(i) <= S[j]

\* Byte o of frame k.
FrameCell(k, o) == IF o <= HdrSize THEN <<"hdr", CtLen(k), o>>
                                   ELSE <<"body", k, o - HdrSize>>

\* The stream has been read up to the payload, or to the end, of the frame that
\* recv works on.
PastHeader == \E r \in Receivers :
                  HasHeader(r) \/ (rpc[r] = "payload" /\ got[r] = <<>>)
PastFrame  == \E r \in Receivers : HasFrame(r)

Taken == IF PastFrame THEN FrameLen(rxSeq + 1)
         ELSE IF PastHeader THEN HdrSize ELSE 0

ReadPos(S)  == S[rxSeq + 1] + Taken
WritePos(S) == IF \E s \in Senders : spc[s] = "header"
               THEN S[Len(records)] + HdrSize ELSE S[Len(records) + 1]

InTransit(S) ==
    /\ ReadPos(S) + Len(wire) = WritePos(S)
    /\ \A p \in 1..Len(wire), k \in 1..Len(records) : \A o \in 1..FrameLen(k) :
          S[k] + o = ReadPos(S) + p => wire[p] = FrameCell(k, o)

\* What the recv in progress has read is what was written.
InHand ==
    /\ PastHeader \/ PastFrame => rxSeq < Len(records)
    /\ \A r \in Receivers :
          /\ HasHeader(r) => got[r] = Hdr(CtLen(rxSeq + 1))
          /\ rpc[r] = "payload" /\ got[r] = <<>> =>
                reads[1][2] = CtLen(rxSeq + 1)
          /\ HasFrame(r) => got[r] = Body(rxSeq + 1, CtLen(rxSeq + 1))

Aligned == InHand /\ \E S : Tiles(S) /\ InTransit(S)

\* Nothing will be read any more.
Over == /\ ~open
        /\ wire = <<>>
        /\ \A r \in Receivers :
              rpc[r] = "idle" \/ (rpc[r] = "header" /\ got[r] = <<>>)

Clean == awaited /\ ~torn /\ \A s \in Senders : spc[s] # "rejected"

CauseOK == Clean => ~failed /\ (Over \/ Aligned)

\* With one recv in progress, its place tells how far the stream has been read.
Phases ==
    /\ \A r \in Receivers : rpc[r] # "idle" =>
          /\ PastFrame <=> HasFrame(r)
          /\ PastHeader <=> HasHeader(r) \/ (rpc[r] = "payload" /\ got[r] = <<>>)
    /\ (\A r \in Receivers : rpc[r] = "idle") => ~PastFrame /\ ~PastHeader

\* recv_record is awaited before the next: so it is.
LEMMA PhaseFact == RecvOK /\ awaited => Phases
BY DEF RecvOK, Phases, PastFrame, PastHeader, HasFrame, HasHeader

\* The positions are numbers, and the next frame's is among them.
LEMMA PosFact ==
    ASSUME Types, SeqOK, InHand, NEW S, Tiles(S)
    PROVE  /\ rxSeq + 1 \in 1..(Len(records) + 1)
           /\ S[rxSeq + 1] \in Nat /\ Taken \in Nat /\ ReadPos(S) \in Nat
           /\ S[Len(records) + 1] \in Nat
<1>a. Len(records) \in Nat /\ rxSeq \in Nat /\ rxSeq <= Len(records)
    BY Lengths DEF Types, SeqOK
<1>1. rxSeq + 1 \in 1..(Len(records) + 1)
    BY <1>a
<1>2. S[rxSeq + 1] \in Nat /\ S[Len(records) + 1] \in Nat
  <2>1. S \in [1..(Len(records) + 1) -> Nat]
      BY DEF Tiles
  <2>2. Len(records) + 1 \in 1..(Len(records) + 1)
      BY <1>a
  <2> QED
      BY <1>1, <2>1, <2>2
<1>3. Taken \in Nat
  <2>1. CASE PastFrame
    <3>1. rxSeq + 1 \in 1..Len(records)
        BY <1>a, <2>1 DEF InHand
    <3> QED
        BY <2>1, <3>1, Lengths DEF Taken
  <2>2. CASE ~PastFrame
      BY <2>2, PortAssumption DEF Taken
  <2> QED
      BY <2>1, <2>2
<1> QED
    BY <1>1, <1>2, <1>3 DEF ReadPos

\* A byte of frame k lies in no other frame.
LEMMA OneFrame ==
    ASSUME Types, NEW S, Tiles(S),
           NEW k \in 1..Len(records), NEW o \in 1..FrameLen(k),
           NEW j \in 1..Len(records), NEW q \in 1..FrameLen(j),
           S[k] + o = S[j] + q
    PROVE  k = j /\ o = q
<1>a. Len(records) \in Nat
    BY Lengths
<1>b. k \in 1..(Len(records) + 1) /\ j \in 1..(Len(records) + 1)
    BY <1>a
<1>1. S[k] \in Nat /\ FrameLen(k) \in Nat /\ S[j] \in Nat /\ FrameLen(j) \in Nat
    BY <1>b, Lengths DEF Tiles
<1>2. CASE k < j
  <2>1. S[k] + FrameLen(k) <= S[j]
      BY <1>2, <1>b DEF Tiles
  <2> QED
      BY <1>1, <2>1
<1>3. CASE j < k
  <2>1. S[j] + FrameLen(j) <= S[k]
      BY <1>3, <1>b DEF Tiles
  <2> QED
      BY <1>1, <2>1
<1>4. CASE k = j
    BY <1>1, <1>4
<1> QED
    BY <1>a, <1>2, <1>3, <1>4

\* The writer is between frames, or between a header and its payload, and not
\* behind the reader.
LEMMA WriterAhead ==
    ASSUME Types, SeqOK, SendOK, awaited, InHand, NEW S, Tiles(S), InTransit(S),
           NEW k, k = rxSeq + 1
    PROVE  /\ WritePos(S) \in Nat
           /\ \/ k = Len(records) + 1 /\ WritePos(S) = S[k]
              \/ k \in 1..Len(records) /\ WritePos(S) = S[k] + HdrSize
              \/ k \in 1..Len(records) /\ WritePos(S) >= S[k] + FrameLen(k)
<1>a. /\ Len(records) \in Nat /\ Len(wire) \in Nat /\ k \in 1..(Len(records) + 1)
      /\ S[k] \in Nat /\ ReadPos(S) \in Nat /\ Taken \in Nat
      /\ S[Len(records) + 1] \in Nat
    BY Lengths, PosFact
<1>b. ReadPos(S) >= S[k] /\ ReadPos(S) + Len(wire) = WritePos(S)
    BY <1>a DEF ReadPos, InTransit
<1>c. WritePos(S) \in Nat /\ WritePos(S) >= S[k]
    BY <1>a, <1>b
<1>1. PICK N : N = Len(records)
    OBVIOUS
<1>2. CASE \E s \in Senders : spc[s] = "header"
  <2>1. N \in 1..Len(records)
      BY <1>1, <1>2 DEF SendOK
  <2>2. WritePos(S) = S[N] + HdrSize
      BY <1>1, <1>2 DEF WritePos
  <2>3. /\ S[N + 1] = S[N] + FrameLen(N) /\ S[N] \in Nat
        /\ CtLen(N) \in Nat \ {0} /\ FrameLen(N) = HdrSize + CtLen(N)
    <3>1. N \in 1..(Len(records) + 1)
        BY <1>a, <2>1
    <3> QED
        BY <2>1, <3>1, Lengths DEF Tiles
  <2>4. k # N + 1
      BY <1>c, <2>2, <2>3, PortAssumption
  <2>5. CASE k = N
      BY <1>c, <2>1, <2>2, <2>5
  <2>6. CASE k # N
    <3>1. k \in 1..Len(records) /\ k < N /\ N \in 1..(Len(records) + 1)
        BY <1>1, <1>a, <2>1, <2>4, <2>6
    <3>2. S[k] + FrameLen(k) <= S[N] /\ FrameLen(k) \in Nat
        BY <3>1, Lengths DEF Tiles
    <3>3. WritePos(S) >= S[k] + FrameLen(k)
        BY <1>a, <2>2, <2>3, <3>2, PortAssumption, SMTT(30)
    <3> QED
        BY <1>c, <3>1, <3>3
  <2> QED
      BY <2>5, <2>6
<1>3. CASE ~\E s \in Senders : spc[s] = "header"
  <2>1. WritePos(S) = S[Len(records) + 1]
      BY <1>3 DEF WritePos
  <2>2. CASE k = Len(records) + 1
      BY <1>c, <2>1, <2>2
  <2>3. CASE k # Len(records) + 1
    <3>1. k \in 1..Len(records) /\ Len(records) + 1 \in 1..(Len(records) + 1)
          /\ k < Len(records) + 1
        BY <1>a, <2>3
    <3>2. S[k] + FrameLen(k) <= S[Len(records) + 1] /\ FrameLen(k) \in Nat
        BY <3>1, Lengths DEF Tiles
    <3> QED
        BY <1>a, <1>c, <2>1, <3>1, <3>2
  <2> QED
      BY <2>2, <2>3
<1> QED
    BY <1>2, <1>3

\* Bytes in transit belong to the frame the reader is in.
LEMMA ReadsFrame ==
    ASSUME Types, SeqOK, InHand, NEW S, Tiles(S), InTransit(S),
           NEW k \in 1..Len(records), k = rxSeq + 1,
           NEW p \in 1..Len(wire), Taken + p <= FrameLen(k)
    PROVE  wire[p] = FrameCell(k, Taken + p)
<1>a. S[k] \in Nat /\ Taken \in Nat /\ Len(wire) \in Nat /\ FrameLen(k) \in Nat
    BY PosFact, Lengths
<1>1. Taken + p \in 1..FrameLen(k) /\ S[k] + (Taken + p) = ReadPos(S) + p
    BY <1>a DEF ReadPos
<1> QED
    BY <1>1 DEF InTransit

\* The next HdrSize bytes are a header.
LEMMA GoodHeader ==
    ASSUME Types, SeqOK, SendOK, awaited, InHand, NEW S, Tiles(S), InTransit(S),
           ~PastHeader, ~PastFrame, Len(wire) >= HdrSize,
           NEW k, k = rxSeq + 1
    PROVE  k \in 1..Len(records) /\ SubSeq(wire, 1, HdrSize) = Hdr(CtLen(k))
<1>a. Len(wire) \in Nat /\ wire \in Seq(Cells) /\ S[k] \in Nat /\ Taken = 0
    BY PosFact, Lengths DEF Types, Taken
<1>1. ReadPos(S) = S[k] /\ ReadPos(S) + Len(wire) = WritePos(S)
    BY <1>a DEF ReadPos, InTransit
<1>2. k \in 1..Len(records)
    BY <1>1, <1>a, WriterAhead, PortAssumption
<1>3. CtLen(k) \in Nat /\ FrameLen(k) = HdrSize + CtLen(k)
    BY <1>2, Lengths
<1>4. PICK h : h = SubSeq(wire, 1, HdrSize)
    OBVIOUS
<1>5. h \in Seq(Cells) /\ Len(h) = HdrSize /\ \A p \in 1..HdrSize : h[p] = wire[p]
    BY <1>4, <1>a, PieceFact, PortAssumption
<1>6. /\ Hdr(CtLen(k)) \in Seq(Cells) /\ Len(Hdr(CtLen(k))) = HdrSize
      /\ \A p \in 1..HdrSize : Hdr(CtLen(k))[p] = <<"hdr", CtLen(k), p>>
    BY <1>3, HdrFact
<1>7. \A p \in 1..HdrSize : wire[p] = <<"hdr", CtLen(k), p>>
  <2> TAKE p \in 1..HdrSize
  <2>1. p \in 1..Len(wire) /\ 0 + p = p /\ p <= FrameLen(k) /\ p <= HdrSize
      BY <1>3, <1>a, PortAssumption
  <2>2. wire[p] = FrameCell(k, p)
      BY <1>2, <1>a, <2>1, ReadsFrame
  <2> QED
      BY <2>1, <2>2 DEF FrameCell
<1>8. h = Hdr(CtLen(k))
    BY <1>5, <1>6, <1>7, SeqEqual
<1> QED
    BY <1>2, <1>4, <1>8

\* And the bytes its length counts are a payload.
LEMMA GoodPayload ==
    ASSUME Types, SeqOK, InHand, NEW S, Tiles(S), InTransit(S),
           PastHeader, ~PastFrame, NEW k \in 1..Len(records), k = rxSeq + 1,
           Len(wire) >= CtLen(k)
    PROVE  SubSeq(wire, 1, CtLen(k)) = Body(k, CtLen(k))
<1>a. /\ Len(wire) \in Nat /\ wire \in Seq(Cells) /\ Taken = HdrSize
      /\ Len(records) \in Nat /\ k \in Nat
    BY Lengths DEF Types, Taken
<1>3. CtLen(k) \in Nat /\ FrameLen(k) = HdrSize + CtLen(k)
    BY Lengths
<1>4. PICK f : f = SubSeq(wire, 1, CtLen(k))
    OBVIOUS
<1>5. /\ f \in Seq(Cells) /\ Len(f) = CtLen(k)
      /\ \A p \in 1..CtLen(k) : f[p] = wire[p]
    BY <1>3, <1>4, <1>a, PieceFact
<1>6. /\ Body(k, CtLen(k)) \in Seq(Cells) /\ Len(Body(k, CtLen(k))) = CtLen(k)
      /\ \A p \in 1..CtLen(k) : Body(k, CtLen(k))[p] = <<"body", k, p>>
    BY <1>3, <1>a, BodyFact
<1>7. \A p \in 1..CtLen(k) : wire[p] = <<"body", k, p>>
  <2> TAKE p \in 1..CtLen(k)
  <2>1. /\ p \in 1..Len(wire) /\ HdrSize + p <= FrameLen(k)
        /\ ~(HdrSize + p <= HdrSize) /\ (HdrSize + p) - HdrSize = p
      BY <1>3, <1>a, PortAssumption
  <2>2. wire[p] = FrameCell(k, HdrSize + p)
      BY <1>a, <2>1, ReadsFrame
  <2> QED
      BY <2>1, <2>2 DEF FrameCell
<1>8. f = Body(k, CtLen(k))
  <2>1. PICK b, n : b = Body(k, CtLen(k)) /\ n = CtLen(k)
      OBVIOUS
  <2>2. /\ f \in Seq(Cells) /\ b \in Seq(Cells) /\ Len(f) = n /\ Len(b) = n
        /\ \A p \in 1..n : f[p] = b[p]
      BY <1>5, <1>6, <1>7, <2>1
  <2>3. f = b
      BY <2>2, SeqEqual
  <2> QED
      BY <2>1, <2>3
<1> QED
    BY <1>4, <1>8

\* A read that finds the stream closed short finds it empty.
LEMMA NothingLeft ==
    ASSUME Types, SeqOK, SendOK, awaited, InHand, NEW S, Tiles(S), InTransit(S),
           ~PastFrame,
           PastHeader => Len(wire) < CtLen(rxSeq + 1),
           ~PastHeader => Len(wire) < HdrSize
    PROVE  wire = <<>>
<1>1. PICK k : k = rxSeq + 1
    OBVIOUS
<1>a. Len(wire) \in Nat /\ wire \in Seq(Cells) /\ S[k] \in Nat /\ ReadPos(S) \in Nat
      /\ ReadPos(S) + Len(wire) = WritePos(S) /\ Len(records) \in Nat
    BY <1>1, PosFact, Lengths DEF Types, InTransit
<1>b. k \in 1..Len(records) => CtLen(k) \in Nat /\ FrameLen(k) = HdrSize + CtLen(k)
    BY Lengths
<1>2. \/ k = Len(records) + 1 /\ WritePos(S) = S[k]
      \/ k \in 1..Len(records) /\ WritePos(S) = S[k] + HdrSize
      \/ k \in 1..Len(records) /\ WritePos(S) >= S[k] + FrameLen(k)
    BY <1>1, WriterAhead
<1>3. CASE PastHeader
  <2>1. ReadPos(S) = S[k] + HdrSize /\ k \in 1..Len(records)
    <3>1. rxSeq < Len(records) /\ rxSeq \in Nat
        BY <1>3 DEF InHand, Types
    <3> QED
        BY <1>1, <1>3, <1>a, <3>1 DEF ReadPos, Taken
  <2>2. Len(wire) = 0
      BY <1>1, <1>2, <1>3, <1>a, <1>b, <2>1, PortAssumption
  <2> QED
      BY <1>a, <2>2, EmptySeq
<1>4. CASE ~PastHeader
  <2>1. ReadPos(S) = S[k]
      BY <1>1, <1>4, <1>a DEF ReadPos, Taken
  <2>2. Len(wire) = 0
      BY <1>2, <1>4, <1>a, <1>b, <2>1, PortAssumption
  <2> QED
      BY <1>a, <2>2, EmptySeq
<1> QED
    BY <1>3, <1>4

\* Frames keep their place while no record is added.
LEMMA TilesKeep ==
    ASSUME UNCHANGED records, NEW S
    PROVE  /\ Tiles(S)' <=> Tiles(S)
           /\ \A k : FrameLen(k)' = FrameLen(k) /\ CtLen(k)' = CtLen(k)
           /\ \A k, o : FrameCell(k, o)' = FrameCell(k, o)
BY DEF Tiles, FrameLen, CtLen, FrameCell

\* Taking n bytes from the stream moves the reader by n.
LEMMA TransitDrops ==
    ASSUME Types, SeqOK, InHand, NEW S, Tiles(S), InTransit(S),
           NEW n \in 0..Len(wire), wire' = SubSeq(wire, n + 1, Len(wire)),
           UNCHANGED records, WritePos(S)' = WritePos(S),
           ReadPos(S)' = ReadPos(S) + n
    PROVE  Tiles(S)' /\ InTransit(S)'
<1>a. Len(wire) \in Nat /\ wire \in Seq(Cells) /\ ReadPos(S) \in Nat
    BY Lengths, PosFact DEF Types
<1>1. /\ Len(wire') = Len(wire) - n
      /\ \A p \in 1..(Len(wire) - n) : wire'[p] = wire[n + p]
    BY <1>a, PieceFact
<1>2. /\ Tiles(S)' /\ \A k : FrameLen(k)' = FrameLen(k)
      /\ \A k, o : FrameCell(k, o)' = FrameCell(k, o)
    BY TilesKeep
<1>3. ReadPos(S)' + Len(wire') = WritePos(S)'
    BY <1>a, <1>1 DEF InTransit
<1>4. ASSUME NEW p \in 1..Len(wire'), NEW k \in 1..Len(records),
             NEW o \in 1..FrameLen(k), S[k] + o = ReadPos(S)' + p
      PROVE  wire'[p] = FrameCell(k, o)
  <2>1. n + p \in 1..Len(wire) /\ S[k] + o = ReadPos(S) + (n + p)
      BY <1>a, <1>1, <1>4
  <2>2. wire[n + p] = FrameCell(k, o)
      BY <2>1 DEF InTransit
  <2> QED
      BY <1>a, <1>1, <2>2
<1> QED
    BY <1>2, <1>3, <1>4 DEF InTransit

\* A step that reads nothing and writes nothing.
LEMMA TransitKeeps ==
    ASSUME Types, SeqOK, InHand, NEW S, Tiles(S), InTransit(S),
           UNCHANGED <<wire, records>>, WritePos(S)' = WritePos(S),
           ReadPos(S)' = ReadPos(S)
    PROVE  Tiles(S)' /\ InTransit(S)'
<1>1. /\ Tiles(S)' /\ \A k : FrameLen(k)' = FrameLen(k)
      /\ \A k, o : FrameCell(k, o)' = FrameCell(k, o)
    BY TilesKeep
<1> QED
    BY <1>1 DEF InTransit

\* Appending bytes t of frame N, which is the last, from offset d on.
LEMMA GrownCell ==
    ASSUME Types, SeqOK, InHand, NEW S, Tiles(S), InTransit(S),
           NEW t \in Seq(Cells), wire' = wire \o t,
           NEW N \in 1..Len(records), NEW d \in Nat,
           WritePos(S) = S[N] + d, d + Len(t) <= FrameLen(N),
           \A i \in 1..Len(t) : t[i] = FrameCell(N, d + i),
           NEW p \in 1..Len(wire'), NEW k \in 1..Len(records),
           NEW o \in 1..FrameLen(k), S[k] + o = ReadPos(S) + p
    PROVE  wire'[p] = FrameCell(k, o)
<1>a. /\ Len(wire) \in Nat /\ wire \in Seq(Cells) /\ ReadPos(S) \in Nat
      /\ Len(t) \in Nat /\ Len(records) \in Nat
    BY Lengths, PosFact, LenProperties DEF Types
<1>1. /\ Len(wire') = Len(wire) + Len(t)
      /\ \A q \in 1..Len(wire) : wire'[q] = wire[q]
      /\ \A i \in 1..Len(t) : wire'[Len(wire) + i] = t[i]
    BY <1>a, ConcatFact, SMTT(30)
<1>2. CASE p \in 1..Len(wire)
    BY <1>1, <1>2 DEF InTransit
<1>3. CASE p \notin 1..Len(wire)
  <2>1. PICK x \in 1..Len(t) : p = Len(wire) + x
    <3>1. p - Len(wire) \in 1..Len(t) /\ p = Len(wire) + (p - Len(wire))
        BY <1>1, <1>3, <1>a
    <3> QED
        BY <3>1
  <2>2. S[N] \in Nat /\ FrameLen(N) \in Nat /\ S[k] \in Nat /\ FrameLen(k) \in Nat
    <3>1. N \in 1..(Len(records) + 1) /\ k \in 1..(Len(records) + 1)
        BY <1>a
    <3> QED
        BY <3>1, Lengths DEF Tiles
  <2>3. PICK a \in Nat : a = ReadPos(S)
      BY <1>a
  <2>4. PICK b \in Nat : b = Len(wire)
      BY <1>a
  <2>5. PICK c \in Nat : c = S[N]
      BY <2>2
  <2>6. a + b = c + d
      BY <2>3, <2>4, <2>5 DEF InTransit
  <2>7. x \in Nat /\ a + (b + x) = c + (d + x)
      BY <1>a, <2>1, <2>6
  <2>8. S[k] + o = S[N] + (d + x)
      BY <2>1, <2>3, <2>4, <2>5, <2>7
  <2>9. d + x \in 1..FrameLen(N)
      BY <1>a, <2>1, <2>2
  <2>10. k = N /\ o = d + x
      BY <2>8, <2>9, OneFrame
  <2> QED
      BY <1>1, <2>1, <2>10
<1> QED
    BY <1>2, <1>3

\* Writing a payload.
LEMMA TransitGrows ==
    ASSUME Types, SeqOK, InHand, NEW S, Tiles(S), InTransit(S),
           NEW t \in Seq(Cells), wire' = wire \o t, UNCHANGED records,
           NEW N \in 1..Len(records), NEW d \in Nat,
           WritePos(S) = S[N] + d, d + Len(t) <= FrameLen(N),
           \A i \in 1..Len(t) : t[i] = FrameCell(N, d + i),
           WritePos(S)' = WritePos(S) + Len(t),
           ReadPos(S)' = ReadPos(S)
    PROVE  Tiles(S)' /\ InTransit(S)'
<1>a. /\ Len(wire) \in Nat /\ wire \in Seq(Cells) /\ ReadPos(S) \in Nat
      /\ Len(t) \in Nat
    BY Lengths, PosFact, LenProperties DEF Types
<1>1. /\ Tiles(S)' /\ \A k : FrameLen(k)' = FrameLen(k)
      /\ \A k, o : FrameCell(k, o)' = FrameCell(k, o)
    BY TilesKeep
<1>2. ReadPos(S)' + Len(wire') = WritePos(S)'
  <2>1. Len(wire') = Len(wire) + Len(t)
      BY <1>a, ConcatFact
  <2>2. ReadPos(S) + Len(wire) = WritePos(S)
      BY DEF InTransit
  <2> QED
      BY <1>a, <2>1, <2>2
<1>3. ASSUME NEW p \in 1..Len(wire'), NEW k \in 1..Len(records),
             NEW o \in 1..FrameLen(k), S[k] + o = ReadPos(S) + p
      PROVE  wire'[p] = FrameCell(k, o)
    BY <1>3, GrownCell
<1> QED
    BY <1>1, <1>2, <1>3 DEF InTransit

\* Sealing a record adds a frame behind the others.
LEMMA TilesGrow ==
    ASSUME Types, NEW S, Tiles(S), Len(records') = Len(records) + 1,
           \A k \in 1..Len(records) : records'[k] = records[k],
           NEW m \in Nat, m = records'[Len(records) + 1].len + Overhead
    PROVE  \E Q : /\ Tiles(Q)'
                  /\ \A k \in 1..(Len(records) + 1) : Q[k] = S[k]
<1>a. Len(records) \in Nat /\ S \in [1..(Len(records) + 1) -> Nat]
    BY Lengths DEF Tiles
<1>1. PICK N \in Nat : N = Len(records)
    BY <1>a
<1> DEFINE Q == [k \in 1..(N + 2) |-> IF k = N + 2 THEN S[N + 1] + HdrSize + m
                                                   ELSE S[k]]
<1>2. N + 1 \in 1..(N + 1) /\ S[N + 1] \in Nat
    BY <1>1, <1>a
<1>3. /\ \A k \in 1..(N + 1) : Q[k] = S[k] /\ S[k] \in Nat
      /\ Q[N + 2] = S[N + 1] + HdrSize + m
      /\ Q \in [1..(N + 2) -> Nat]
  <2>1. \A k \in 1..(N + 1) : k \in 1..(N + 2) /\ k # N + 2 /\ S[k] \in Nat
      BY <1>1, <1>a
  <2>2. N + 2 \in 1..(N + 2) /\ S[N + 1] + HdrSize + m \in Nat
      BY <1>2, PortAssumption, SMTT(30)
  <2>3. \A k \in 1..(N + 2) : k = N + 2 \/ k \in 1..(N + 1)
      OBVIOUS
  <2> QED
      BY <2>1, <2>2, <2>3
<1> HIDE DEF Q
<1>4. \A k \in 1..N : FrameLen(k)' = FrameLen(k) /\ FrameLen(k) \in Nat
    BY <1>1, Lengths DEF FrameLen, CtLen
<1>5. FrameLen(N + 1)' = HdrSize + m
    BY <1>1 DEF FrameLen, CtLen
<1>6. ASSUME NEW k \in 1..(N + 1) PROVE Q[k + 1] = Q[k] + FrameLen(k)'
  <2>1. CASE k \in 1..N
    <3>1. k + 1 \in 1..(N + 1) /\ k \in 1..(N + 1)
        BY <2>1
    <3>2. S[k + 1] = S[k] + FrameLen(k)
        BY <1>1, <2>1 DEF Tiles
    <3> QED
        BY <1>3, <1>4, <2>1, <3>1, <3>2
  <2>2. CASE k = N + 1
    <3>1. (N + 1) + 1 = N + 2
        OBVIOUS
    <3> QED
        BY <1>2, <1>3, <1>5, <2>2, <3>1, PortAssumption
  <2> QED
      BY <2>1, <2>2
<1>7. ASSUME NEW i \in 1..(N + 1), NEW j \in 1..(N + 2), i < j
      PROVE  Q[i] + FrameLen(i)' <= Q[j]
  <2>1. CASE j \in 1..(N + 1)
    <3>1. i \in 1..N
        BY <1>7, <2>1
    <3>2. S[i] + FrameLen(i) <= S[j]
        BY <1>1, <1>7, <2>1, <3>1 DEF Tiles
    <3> QED
        BY <1>3, <1>4, <2>1, <3>1, <3>2
  <2>2. CASE j = N + 2 /\ i = N + 1
    <3>1. Q[N + 2] = Q[N + 1] + (HdrSize + m) /\ Q[N + 1] \in Nat
        BY <1>2, <1>3, PortAssumption
    <3> QED
        BY <1>5, <2>2, <3>1, PortAssumption
  <2>3. CASE j = N + 2 /\ i # N + 1
    <3>1. i \in 1..N /\ i < N + 1
        BY <1>7, <2>3
    <3>2. S[i] + FrameLen(i) <= S[N + 1] /\ FrameLen(i) \in Nat /\ S[i] \in Nat
        BY <1>1, <1>2, <1>3, <1>4, <3>1 DEF Tiles
    <3>3. Q[j] = S[N + 1] + HdrSize + m /\ Q[i] = S[i]
          /\ FrameLen(i)' = FrameLen(i)
        BY <1>3, <1>4, <2>3, <3>1
    <3> QED
        BY <1>2, <3>2, <3>3, PortAssumption, SMTT(30)
  <2> QED
      BY <2>1, <2>2, <2>3
<1>8. Tiles(Q)'
  <2>1. Len(records') = N + 1 /\ Len(records') + 1 = N + 2
      BY <1>1
  <2> QED
      BY <1>3, <1>6, <1>7, <2>1 DEF Tiles
<1> QED
    BY <1>1, <1>3, <1>8

\* Sealing a record and writing its header.
LEMMA TransitChunk ==
    ASSUME Types, Types', SeqOK, InHand, NEW S, Tiles(S), InTransit(S),
           NEW Q, Tiles(Q)', \A k \in 1..(Len(records) + 1) : Q[k] = S[k],
           Len(records') = Len(records) + 1,
           \A k \in 1..Len(records) : records'[k] = records[k],
           NEW m \in Nat, m = records'[Len(records) + 1].len + Overhead,
           wire' = wire \o Hdr(m),
           WritePos(S) = S[Len(records) + 1],
           WritePos(Q)' = Q[Len(records) + 1] + HdrSize,
           ReadPos(Q)' = ReadPos(S)
    PROVE  InTransit(Q)'
<1>a. /\ Len(wire) \in Nat /\ wire \in Seq(Cells) /\ ReadPos(S) \in Nat
      /\ Len(records) \in Nat
    BY Lengths, PosFact DEF Types
<1>1. PICK N \in Nat : N = Len(records)
    BY <1>a
<1>2. N + 1 \in 1..(N + 1) /\ Q[N + 1] = S[N + 1] /\ S[N + 1] \in Nat
  <2>1. N + 1 \in 1..(N + 1)
      OBVIOUS
  <2>2. S \in [1..(N + 1) -> Nat]
      BY <1>1 DEF Tiles
  <2> QED
      BY <1>1, <2>1, <2>2
<1>3. ReadPos(S) + Len(wire) = S[N + 1]
    BY <1>1 DEF InTransit
<1>4. /\ Hdr(m) \in Seq(Cells) /\ Len(Hdr(m)) = HdrSize
      /\ \A i \in 1..HdrSize : Hdr(m)[i] = <<"hdr", m, i>>
    BY HdrFact
<1>5. /\ Len(wire') = Len(wire) + HdrSize
      /\ \A p \in 1..Len(wire) : wire'[p] = wire[p]
      /\ \A i \in 1..HdrSize : wire'[Len(wire) + i] = <<"hdr", m, i>>
  <2>1. PICK t \in Seq(Cells) : t = Hdr(m)
      BY <1>4
  <2>2. /\ Len(wire') = Len(wire) + Len(t)
        /\ \A p \in 1..Len(wire) : wire'[p] = wire[p]
        /\ \A i \in 1..Len(t) : wire'[Len(wire) + i] = t[i]
      BY <1>a, <2>1, ConcatFact
  <2> QED
      BY <1>4, <2>1, <2>2
<1>6. ReadPos(Q)' + Len(wire') = WritePos(Q)'
    BY <1>1, <1>2, <1>3, <1>5, <1>a, PortAssumption
<1>7. /\ \A k \in 1..N : /\ FrameLen(k)' = FrameLen(k) /\ CtLen(k)' = CtLen(k)
                         /\ FrameLen(k) \in Nat /\ k \in 1..(N + 1)
      /\ CtLen(N + 1)' = m /\ FrameLen(N + 1)' = HdrSize + m
    BY <1>1, Lengths DEF FrameLen, CtLen
<1>8. ASSUME NEW p \in 1..Len(wire'), NEW k \in 1..(N + 1),
             NEW o \in 1..FrameLen(k)', Q[k] + o = ReadPos(S) + p
      PROVE  wire'[p] = FrameCell(k, o)'
  <2>1. k \in 1..N \/ k = N + 1
      OBVIOUS
  <2>2. CASE p \in 1..Len(wire)
    <3>1. CASE k \in 1..N
      <4>1. o \in 1..FrameLen(k) /\ S[k] + o = ReadPos(S) + p
          BY <1>1, <1>7, <1>8, <3>1
      <4>2. wire[p] = FrameCell(k, o)
          BY <1>1, <2>2, <3>1, <4>1 DEF InTransit
      <4> QED
          BY <1>5, <1>7, <2>2, <3>1, <4>2 DEF FrameCell
    <3>2. CASE k = N + 1
      <4>1. o \in Nat /\ o > 0
          BY <1>7, <3>2, PortAssumption
      <4>2. S[N + 1] + o = ReadPos(S) + p
          BY <1>2, <1>8, <3>2
      <4> QED
          BY <1>2, <1>3, <1>a, <2>2, <4>1, <4>2
    <3> QED
        BY <2>1, <3>1, <3>2
  <2>3. CASE p \notin 1..Len(wire)
    <3>1. PICK x \in 1..HdrSize : p = Len(wire) + x
      <4>1. p - Len(wire) \in 1..HdrSize /\ p = Len(wire) + (p - Len(wire))
          BY <1>5, <1>a, <2>3, PortAssumption
      <4> QED
          BY <4>1
    <3>2. Q[k] + o = Q[N + 1] + x
      <4>1. PICK a \in Nat : a = ReadPos(S)
          BY <1>a
      <4>2. PICK b \in Nat : b = Len(wire)
          BY <1>a
      <4>3. x \in Nat
          BY <3>1, PortAssumption
      <4>4. a + (b + x) = (a + b) + x
          BY <4>3
      <4>5. a + b = Q[N + 1] /\ Q[k] + o = a + (b + x)
          BY <1>2, <1>3, <1>8, <3>1, <4>1, <4>2
      <4> QED
          BY <4>4, <4>5
    <3>3. CASE k \in 1..N
      <4>1. Q[k] + FrameLen(k)' <= Q[N + 1]
        <5>1. k \in 1..Len(records') /\ N + 1 \in 1..(Len(records') + 1) /\ k < N + 1
            BY <1>1, <1>a, <3>3
        <5> QED
            BY <5>1 DEF Tiles
      <4>2. Q[k] \in Nat
          BY <1>1, <1>a, <3>3 DEF Tiles
      <4> QED
          BY <1>2, <1>7, <3>1, <3>2, <3>3, <4>1, <4>2, PortAssumption, SMTT(30)
    <3>4. CASE k = N + 1
      <4>1. o = x /\ x <= HdrSize
          BY <1>2, <1>7, <3>1, <3>2, <3>4, PortAssumption
      <4>2. FrameCell(k, o)' = <<"hdr", m, x>>
          BY <1>7, <3>4, <4>1 DEF FrameCell
      <4> QED
          BY <1>5, <3>1, <4>2
    <3> QED
        BY <2>1, <3>3, <3>4
  <2> QED
      BY <2>2, <2>3
<1> QED
    BY <1>1, <1>6, <1>8 DEF InTransit

\* Until a send fails, no step of send makes a frame unreadable.
LEMMA CauseOKSend ==
    ASSUME Inv, Inv', CauseOK, NEW s \in Senders, Send(s) \/ SendStep(s)
    PROVE  CauseOK'
<1>a. Types /\ SeqOK /\ SendOK /\ RecvOK /\ Types' /\ SendOK'
    BY DEF Inv
<1>b. UNCHANGED <<open, awaited, rxSeq, rpc, got, reads, received, failed>>
    BY DEF Send, SendStep, SendPayload, SendMore, SendReturns, SendThrows, env, rvars
<1>c. (PastHeader' <=> PastHeader) /\ (PastFrame' <=> PastFrame)
      /\ (\A r : HasHeader(r)' <=> HasHeader(r))
      /\ (\A r : HasFrame(r)' <=> HasFrame(r))
    BY <1>b DEF PastHeader, PastFrame, HasHeader, HasFrame
<1> SUFFICES ASSUME Clean' PROVE ~failed' /\ (Over' \/ Aligned')
    BY DEF CauseOK
<1>d. spc'[s] # "rejected" /\ ~torn' /\ awaited
    BY <1>b DEF Clean
<1>e. Clean
  <2>1. ~torn /\ \A t \in Senders : t # s => spc'[t] = spc[t]
    <3>1. torn' = torn \/ torn' = TRUE
        BY DEF Send, SendStep, SendPayload, SendMore, SendReturns, SendThrows
    <3>2. \A t \in Senders : t # s => spc'[t] = spc[t]
        BY <1>a DEF Send, SendStep, SendPayload, SendMore, SendReturns, SendThrows,
                    Chunk, WriteThenAwait, Types
    <3> QED
        BY <1>d, <3>1, <3>2
  <2>2. spc[s] # "rejected"
    <3>1. ~SendThrows(s)
        BY <1>d DEF SendThrows
    <3> QED
        BY <3>1 DEF Send, SendStep, SendPayload, SendMore, SendReturns
  <2> QED
      BY <1>d, <2>1, <2>2 DEF Clean
<1>f. ~failed /\ (Over \/ Aligned)
    BY <1>e DEF CauseOK
<1>g. ASSUME \A k \in 1..Len(records) : records'[k] = records[k],
             Len(records') >= Len(records), InHand
      PROVE  InHand' /\ Taken' = Taken
  <2>1. PastHeader \/ PastFrame =>
            rxSeq + 1 \in 1..Len(records) /\ CtLen(rxSeq + 1)' = CtLen(rxSeq + 1)
            /\ FrameLen(rxSeq + 1)' = FrameLen(rxSeq + 1)
    <3> HAVE PastHeader \/ PastFrame
    <3>1. rxSeq + 1 \in 1..Len(records)
        BY <1>a, <1>g, Lengths DEF InHand, Types
    <3> QED
        BY <1>b, <1>g, <3>1 DEF CtLen, FrameLen
  <2>2. Taken' = Taken
      BY <1>c, <2>1 DEF Taken
  <2>3. PastHeader' \/ PastFrame' => rxSeq' < Len(records')
    <3>1. Len(records) \in Nat /\ Len(records') \in Nat /\ rxSeq \in Nat
        BY <1>a, LenProperties DEF Types
    <3> QED
        BY <1>b, <1>c, <1>g, <3>1 DEF InHand
  <2>4. ASSUME NEW r \in Receivers
        PROVE  /\ HasHeader(r)' => got'[r] = Hdr(CtLen(rxSeq + 1)')
               /\ rpc'[r] = "payload" /\ got'[r] = <<>> =>
                     reads'[1][2] = CtLen(rxSeq + 1)'
               /\ HasFrame(r)' => got'[r] = Body(rxSeq + 1, CtLen(rxSeq + 1)')
    <3>1. HasHeader(r) \/ HasFrame(r) \/ (rpc[r] = "payload" /\ got[r] = <<>>)
             => PastHeader \/ PastFrame
        BY DEF PastHeader, PastFrame
    <3> QED
        BY <1>b, <1>c, <1>g, <2>1, <3>1 DEF InHand
  <2>5. InHand'
    <3>1. \A r \in Receivers :
            /\ HasHeader(r)' => got'[r] = Hdr(CtLen(rxSeq + 1))'
            /\ rpc'[r] = "payload" /\ got'[r] = <<>> =>
                  reads'[1][2] = CtLen(rxSeq + 1)'
            /\ HasFrame(r)' => got'[r] = Body(rxSeq + 1, CtLen(rxSeq + 1))'
        BY <1>b, <2>4 DEF Hdr, Body
    <3> QED
        BY <2>3, <3>1 DEF InHand
  <2> QED
      BY <2>2, <2>5
<1>1. ASSUME NEW n \in Nat \ {0}, Chunk(s, n),
             \A t \in Senders : spc[t] # "header"
      PROVE  ~failed' /\ (Over' \/ Aligned')
  <2>1. PICK m \in Nat : m = records'[Len(records) + 1].len + Overhead
      BY <1>1, <1>a, ChunkFact
  <2>2. /\ Len(records') = Len(records) + 1
        /\ \A k \in 1..Len(records) : records'[k] = records[k]
        /\ \/ /\ open
              /\ wire' = wire \o Hdr(m)
              /\ spc' = [spc EXCEPT ![s] = "header"]
           \/ spc' = [spc EXCEPT ![s] = "rejected"]
      BY <1>1, <1>a, <2>1, ChunkFact
  <2>3. open /\ wire' = wire \o Hdr(m) /\ spc'[s] = "header"
      BY <1>a, <1>d, <2>2 DEF Types
  <2>4. Aligned
      BY <1>f, <2>3 DEF Over
  <2>5. PICK S : InHand /\ Tiles(S) /\ InTransit(S)
      BY <2>4 DEF Aligned
  <2>6. InHand' /\ Taken' = Taken
      BY <1>a, <1>g, <2>2, <2>5, Lengths
  <2>7. PICK Q : /\ Tiles(Q)'
                 /\ \A k \in 1..(Len(records) + 1) : Q[k] = S[k]
      BY <1>a, <2>1, <2>2, <2>5, TilesGrow
  <2>8. ReadPos(Q)' = ReadPos(S)
    <3>1. rxSeq + 1 \in 1..(Len(records) + 1)
        BY <1>a, <2>5, PosFact
    <3> QED
        BY <1>b, <2>6, <2>7, <3>1 DEF ReadPos
  <2>9. WritePos(S) = S[Len(records) + 1]
      BY <1>1 DEF WritePos
  <2>10. WritePos(Q)' = Q[Len(records) + 1] + HdrSize
      BY <2>2, <2>3 DEF WritePos
  <2>11. InTransit(Q)'
      BY <1>a, <2>1, <2>2, <2>3, <2>5, <2>7, <2>8, <2>9, <2>10, TransitChunk
  <2> QED
      BY <1>b, <1>f, <2>6, <2>7, <2>11 DEF Aligned
<1>2. CASE Send(s)
  <2>1. PICK n \in SendSizes : Chunk(s, n)
      BY <1>2 DEF Send
  <2>2. n \in Nat \ {0}
      BY PortAssumption
  <2>3. \A t \in Senders : spc[t] # "header"
      BY <1>2, <1>a, <1>d DEF Send, MayCall, Types
  <2> QED
      BY <1>1, <2>1, <2>2, <2>3
<1>3. CASE SendMore(s)
  <2>1. left[s] \in Nat \ {0} /\ Chunk(s, left[s])
      BY <1>3, <1>a DEF SendMore, Types
  <2>2. \A t \in Senders : spc[t] # "header"
      BY <1>3, <1>a, <1>d DEF SendMore, SendOK
  <2> QED
      BY <1>1, <2>1, <2>2
<1>4. CASE SendPayload(s)
  <2>1. PICK N : N = Len(records)
      OBVIOUS
  <2>2. /\ spc[s] = "header" /\ rec[s] = N /\ N \in 1..Len(records)
        /\ UNCHANGED records
      BY <1>4, <1>a, <1>d, <2>1 DEF SendPayload, SendOK
  <2>3. CtLen(N) \in Nat \ {0} /\ FrameLen(N) = HdrSize + CtLen(N) /\ N \in Nat
      BY <1>a, <2>2, Lengths
  <2>4. PICK t : t = Body(N, CtLen(N))
      OBVIOUS
  <2>5. /\ t \in Seq(Cells) /\ Len(t) = CtLen(N)
        /\ \A i \in 1..CtLen(N) : t[i] = <<"body", N, i>>
      BY <2>3, <2>4, BodyFact
  <2>6. WriteThenAwait(s, t, "payload") /\ t # <<>>
      BY <1>4, <2>2, <2>3, <2>4, <2>5 DEF SendPayload, CtLen
  <2>7. \/ open /\ wire' = wire \o t /\ spc' = [spc EXCEPT ![s] = "payload"]
        \/ spc' = [spc EXCEPT ![s] = "rejected"]
      BY <1>a, <2>5, <2>6, WriteFact
  <2>8. open /\ wire' = wire \o t /\ spc' = [spc EXCEPT ![s] = "payload"]
      BY <1>a, <1>d, <2>7 DEF Types
  <2>9. Aligned
      BY <1>f, <2>8 DEF Over
  <2>10. PICK S : InHand /\ Tiles(S) /\ InTransit(S)
      BY <2>9 DEF Aligned
  <2>11. InHand' /\ Taken' = Taken
      BY <1>a, <1>g, <2>2, <2>10, Lengths
  <2>12. ReadPos(S)' = ReadPos(S)
      BY <1>b, <2>11 DEF ReadPos
  <2>13. WritePos(S) = S[N] + HdrSize
      BY <2>1, <2>2 DEF WritePos
  <2>14. WritePos(S)' = S[N + 1]
    <3>1. \A u \in Senders : spc'[u] # "header"
        BY <1>a, <1>d, <2>2, <2>8 DEF SendOK, Types
    <3> QED
        BY <2>1, <2>2, <3>1 DEF WritePos
  <2>15. WritePos(S)' = WritePos(S) + Len(t) /\ HdrSize + Len(t) <= FrameLen(N)
    <3>1. N \in 1..(Len(records) + 1)
        BY <2>1, <2>2, <2>3
    <3>2. S[N + 1] = S[N] + FrameLen(N) /\ S[N] \in Nat
        BY <2>2, <2>10, <3>1 DEF Tiles
    <3> QED
        BY <2>3, <2>5, <2>13, <2>14, <3>2, PortAssumption
  <2>16. \A i \in 1..Len(t) : t[i] = FrameCell(N, HdrSize + i)
    <3> TAKE i \in 1..Len(t)
    <3>1. ~(HdrSize + i <= HdrSize) /\ (HdrSize + i) - HdrSize = i
        BY <2>3, <2>5, PortAssumption
    <3> QED
        BY <2>5, <3>1 DEF FrameCell
  <2>17. HdrSize \in Nat
      BY PortAssumption
  <2>18. Tiles(S)' /\ InTransit(S)'
      BY <1>a, <2>2, <2>5, <2>8, <2>10, <2>12, <2>13, <2>15, <2>16, <2>17,
         TransitGrows
  <2> QED
      BY <1>b, <1>f, <2>11, <2>18 DEF Aligned
<1>5. CASE SendReturns(s)
  <2>1. /\ spc[s] = "payload" /\ spc' = [spc EXCEPT ![s] = "idle"]
        /\ UNCHANGED <<wire, records>>
      BY <1>5 DEF SendReturns
  <2>2. Over => Over'
      BY <1>b, <2>1 DEF Over
  <2>3. Aligned => Aligned'
    <3> HAVE Aligned
    <3>1. PICK S : InHand /\ Tiles(S) /\ InTransit(S)
        BY DEF Aligned
    <3>2. InHand' /\ Taken' = Taken
        BY <1>a, <1>g, <2>1, <3>1, Lengths
    <3>3. ReadPos(S)' = ReadPos(S)
        BY <1>b, <3>2 DEF ReadPos
    <3>4. WritePos(S)' = WritePos(S)
      <4>1. \A t \in Senders : (spc'[t] = "header") <=> (spc[t] = "header")
          BY <1>a, <2>1 DEF Types
      <4> QED
          BY <2>1, <4>1 DEF WritePos
    <3>5. Tiles(S)' /\ InTransit(S)'
        BY <1>a, <2>1, <3>1, <3>3, <3>4, TransitKeeps
    <3> QED
        BY <3>2, <3>5 DEF Aligned
  <2> QED
      BY <1>b, <1>f, <2>2, <2>3
<1>6. CASE SendThrows(s)
    BY <1>6, <1>d DEF SendThrows
<1> QED
    BY <1>2, <1>3, <1>4, <1>5, <1>6 DEF SendStep

\* Nor does any step of recv or of the stream fail on a frame.
LEMMA CauseOKRecv ==
    ASSUME Inv, Inv', CauseOK,
           \/ \E r \in Receivers : Recv(r) \/ RecvStep(r)
           \/ ServeRead \/ RecvEnds \/ CloseStream \/ UNCHANGED vars
    PROVE  CauseOK'
<1>a. Types /\ SeqOK /\ SendOK /\ RecvOK /\ Types' /\ SeqOK' /\ RecvOK'
    BY DEF Inv
<1>b. UNCHANGED <<svars, awaited>>
    BY DEF Recv, RecvStep, RecvHeader, RecvBadLength, RecvOpens, RecvCorrupted,
           RecvThrows, ServeRead, RecvEnds, CloseStream, vars, env
<1>c. UNCHANGED <<spc, records, torn, awaited>>
    BY <1>b DEF svars
<1> SUFFICES ASSUME Clean' PROVE ~failed' /\ (Over' \/ Aligned')
    BY DEF CauseOK
<1>d. Clean /\ awaited /\ awaited'
    BY <1>c DEF Clean
<1>e. ~failed /\ (Over \/ Aligned)
    BY <1>d DEF CauseOK
<1>f. Phases /\ Phases'
  <2>1. RecvOK' /\ awaited' => Phases'
      BY PhaseFact, PTL
  <2> QED
      BY <1>a, <1>d, <2>1, PhaseFact
<1>g. \A S : WritePos(S)' = WritePos(S)
    BY <1>c DEF WritePos
<1>h. \A k : CtLen(k)' = CtLen(k) /\ FrameLen(k)' = FrameLen(k)
    BY <1>c DEF CtLen, FrameLen
<1>i. Len(records) \in Nat /\ Len(wire) \in Nat /\ rxSeq \in Nat /\ rxSeq <= SeqMax
      /\ SeqMax \in Nat
    BY <1>a, Lengths, PortAssumption DEF Types, SeqOK
<1>j. ASSUME NEW S, InHand, Tiles(S), InTransit(S), UNCHANGED wire,
             ReadPos(S)' = ReadPos(S), InHand'
      PROVE  Aligned'
    BY <1>a, <1>c, <1>g, <1>j, TransitKeeps DEF Aligned
<1>1. ASSUME NEW r \in Receivers, Recv(r)
      PROVE  ~failed' /\ (Over' \/ Aligned')
  <2>1. /\ rpc' = [rpc EXCEPT ![r] = "header"] /\ got' = [got EXCEPT ![r] = <<>>]
        /\ UNCHANGED <<rxSeq, failed, wire, open>>
      BY <1>1 DEF Recv, env
  <2>2. \A q \in Receivers : rpc[q] = "idle"
      BY <1>1, <1>a, <1>d DEF Recv, MayCall, Types
  <2>3. \A q \in Receivers : IF q = r THEN rpc'[q] = "header" /\ got'[q] = <<>>
                                      ELSE rpc'[q] = "idle"
      BY <1>a, <2>1, <2>2 DEF Types
  <2>4. ~PastHeader /\ ~PastFrame /\ ~PastHeader' /\ ~PastFrame'
      BY <2>2, <2>3 DEF PastHeader, PastFrame, HasHeader, HasFrame
  <2>5. Over => Over'
      BY <2>1, <2>3 DEF Over
  <2>6. Aligned => Aligned'
    <3> HAVE Aligned
    <3>1. PICK S : InHand /\ Tiles(S) /\ InTransit(S)
        BY DEF Aligned
    <3>2. ReadPos(S)' = ReadPos(S)
        BY <2>1, <2>4 DEF ReadPos, Taken
    <3>3. InHand'
        BY <2>3, <2>4 DEF InHand, HasHeader, HasFrame
    <3> QED
        BY <1>j, <2>1, <3>1, <3>2, <3>3
  <2> QED
      BY <1>e, <2>1, <2>5, <2>6
<1>2. CASE ServeRead
  <2>1. PICK q, n : q = reads[1][1] /\ n = reads[1][2]
      OBVIOUS
  <2>2. /\ reads # <<>> /\ q \in Receivers /\ n \in Nat \ {0}
        /\ Head(reads) = reads[1]
        /\ rpc[q] # "idle" /\ got[q] = <<>>
      BY <1>2, <1>a, <1>d, <2>1, ReadsFact DEF ServeRead
  <2>3. /\ n <= Len(wire) /\ got' = [got EXCEPT ![q] = SubSeq(wire, 1, n)]
        /\ wire' = SubSeq(wire, n + 1, Len(wire))
        /\ UNCHANGED <<rxSeq, rpc, failed, open>>
      BY <1>2, <1>i, <2>1, <2>2 DEF ServeRead, env
  <2>4. n \in 0..Len(wire) /\ Len(wire) # 0
      BY <1>i, <2>2, <2>3
  <2>5. Aligned
      BY <1>e, <2>4 DEF Over
  <2>6. PICK S : InHand /\ Tiles(S) /\ InTransit(S)
      BY <2>5 DEF Aligned
  <2>7. \A p \in Receivers : p # q => rpc[p] = "idle"
      BY <1>a, <1>d, <2>2 DEF RecvOK
  <2>8. got'[q] = SubSeq(wire, 1, n) /\ got'[q] # <<>>
    <3>1. wire \in Seq(Cells) /\ got'[q] = SubSeq(wire, 1, n)
        BY <1>a, <2>2, <2>3 DEF Types
    <3>2. SubSeq(wire, 1, n) \in Seq(Cells) /\ Len(SubSeq(wire, 1, n)) = n
        BY <2>4, <3>1, PieceFact
    <3>3. SubSeq(wire, 1, n) # <<>>
      <4>1. PICK piece : piece = SubSeq(wire, 1, n)
          OBVIOUS
      <4>2. piece \in Seq(Cells) /\ Len(piece) = n /\ n # 0
          BY <2>2, <3>2, <4>1
      <4>3. piece # <<>>
          BY <4>2
      <4> QED
          BY <4>1, <4>3
    <3> QED
        BY <3>1, <3>3
  <2>9. PICK k : k = rxSeq + 1
      OBVIOUS
  <2>10. S[k] \in Nat /\ ReadPos(S) \in Nat
      BY <1>a, <2>6, <2>9, PosFact
  <2>11. CASE rpc[q] = "header"
    <3>1. n = HdrSize
        BY <1>a, <1>d, <2>1, <2>2, <2>11 DEF RecvOK
    <3>2. ~PastHeader /\ ~PastFrame
        BY <1>f, <2>2, <2>11 DEF Phases, HasHeader, HasFrame
    <3>3. k \in 1..Len(records) /\ SubSeq(wire, 1, HdrSize) = Hdr(CtLen(k))
        BY <1>a, <1>d, <2>3, <2>6, <2>9, <3>1, <3>2, GoodHeader
    <3>4. HasHeader(q)' /\ ~HasFrame(q)'
        BY <2>3, <2>8, <2>11 DEF HasHeader, HasFrame
    <3>5. PastHeader' /\ ~PastFrame'
        BY <1>f, <2>2, <2>3, <3>4 DEF Phases
    <3>6. ReadPos(S)' = ReadPos(S) + n
        BY <2>3, <2>9, <2>10, <3>1, <3>2, <3>5, PortAssumption DEF ReadPos, Taken
    <3>7. Tiles(S)' /\ InTransit(S)'
        BY <1>a, <1>c, <1>g, <2>3, <2>4, <2>6, <3>6, TransitDrops
    <3>8. InHand'
      <4>1. rxSeq < Len(records)
          BY <1>i, <2>9, <3>3
      <4>2. got'[q] = Hdr(CtLen(rxSeq + 1)')
          BY <1>h, <2>3, <2>8, <2>9, <3>1, <3>3
      <4>3. \A p \in Receivers : p # q => rpc'[p] = "idle"
          BY <2>3, <2>7
      <4>4. \A p \in Receivers :
              /\ HasHeader(p)' => got'[p] = Hdr(CtLen(rxSeq + 1)')
              /\ ~(rpc'[p] = "payload")
          BY <2>3, <2>11, <4>2, <4>3 DEF HasHeader
      <4> QED
          BY <1>c, <1>h, <2>3, <4>1, <4>4 DEF InHand, HasFrame, Hdr, CtLen
    <3> QED
        BY <1>e, <2>3, <3>7, <3>8 DEF Aligned
  <2>12. CASE rpc[q] = "payload"
    <3>1. n = CtLen(k)
        BY <2>1, <2>2, <2>6, <2>9, <2>12 DEF InHand
    <3>2. PastHeader /\ ~PastFrame
        BY <1>f, <2>2, <2>12 DEF Phases, HasHeader, HasFrame
    <3>3. k \in 1..Len(records)
        BY <1>i, <2>6, <2>9, <3>2 DEF InHand
    <3>4. SubSeq(wire, 1, CtLen(k)) = Body(k, CtLen(k))
        BY <1>a, <2>3, <2>6, <2>9, <3>1, <3>2, <3>3, GoodPayload
    <3>5. HasFrame(q)' /\ ~HasHeader(q)'
        BY <2>3, <2>8, <2>12 DEF HasHeader, HasFrame
    <3>6. PastFrame'
        BY <1>f, <2>2, <2>3, <3>5 DEF Phases
    <3>7. ReadPos(S)' = ReadPos(S) + n
      <4>1. FrameLen(k) = HdrSize + n /\ FrameLen(k)' = FrameLen(k)
          BY <1>a, <1>h, <3>1, <3>3, Lengths
      <4>2. ReadPos(S) = S[k] + HdrSize
          BY <2>9, <3>2 DEF ReadPos, Taken
      <4>3. ReadPos(S)' = S[k] + FrameLen(k)
          BY <1>h, <2>3, <2>9, <3>6 DEF ReadPos, Taken, FrameLen, CtLen
      <4> QED
          BY <2>2, <2>10, <4>1, <4>2, <4>3, PortAssumption
    <3>8. Tiles(S)' /\ InTransit(S)'
        BY <1>a, <1>c, <1>g, <2>3, <2>4, <2>6, <3>7, TransitDrops
    <3>9. InHand'
      <4>1. rxSeq < Len(records)
          BY <1>i, <2>9, <3>3
      <4>2. got'[q] = Body(rxSeq + 1, CtLen(rxSeq + 1)')
          BY <1>h, <2>3, <2>8, <2>9, <3>1, <3>4
      <4>3. \A p \in Receivers :
              /\ HasFrame(p)' => got'[p] = Body(rxSeq + 1, CtLen(rxSeq + 1)')
              /\ ~(rpc'[p] = "header") /\ ~(rpc'[p] = "payload" /\ got'[p] = <<>>)
          BY <2>3, <2>7, <2>8, <2>12, <4>2 DEF HasFrame
      <4> QED
          BY <1>c, <1>h, <2>3, <4>1, <4>3 DEF InHand, HasHeader, Body, CtLen
    <3> QED
        BY <1>e, <2>3, <3>8, <3>9 DEF Aligned
  <2> QED
      BY <1>a, <2>2, <2>11, <2>12 DEF Types
<1>3. CASE RecvEnds
  <2>1. PICK q, n : q = reads[1][1] /\ n = reads[1][2]
      OBVIOUS
  <2>2. /\ reads # <<>> /\ q \in Receivers
        /\ Head(reads) = reads[1]
        /\ rpc[q] # "idle" /\ got[q] = <<>>
      BY <1>3, <1>a, <1>d, <2>1, ReadsFact DEF RecvEnds
  <2>3. /\ rpc' = [rpc EXCEPT ![q] = "idle"] /\ ~open /\ Len(wire) < n
        /\ wire' \in {wire, <<>>}
        /\ UNCHANGED <<rxSeq, got, failed, open>>
      BY <1>3, <2>1, <2>2 DEF RecvEnds, env
  <2>4. \A p \in Receivers : rpc'[p] = "idle"
      BY <1>a, <1>d, <2>2, <2>3 DEF RecvOK, Types
  <2>5. wire = <<>>
    <3>1. CASE Over
        BY <3>1 DEF Over
    <3>2. CASE Aligned
      <4>1. PICK S : InHand /\ Tiles(S) /\ InTransit(S)
          BY <3>2 DEF Aligned
      <4>2. CASE rpc[q] = "header"
        <5>1. n = HdrSize
            BY <1>a, <1>d, <2>1, <2>2, <4>2 DEF RecvOK
        <5>2. ~PastHeader /\ ~PastFrame
            BY <1>f, <2>2, <4>2 DEF Phases, HasHeader, HasFrame
        <5> QED
            BY <1>a, <1>d, <2>3, <4>1, <5>1, <5>2, NothingLeft
      <4>3. CASE rpc[q] = "payload"
        <5>1. n = CtLen(rxSeq + 1)
            BY <2>1, <2>2, <4>1, <4>3 DEF InHand
        <5>2. PastHeader /\ ~PastFrame
            BY <1>f, <2>2, <4>3 DEF Phases, HasHeader, HasFrame
        <5> QED
            BY <1>a, <1>d, <2>3, <4>1, <5>1, <5>2, NothingLeft
      <4> QED
          BY <1>a, <2>2, <4>2, <4>3 DEF Types
    <3> QED
        BY <1>e, <3>1, <3>2
  <2> QED
      BY <1>e, <2>3, <2>4, <2>5 DEF Over
<1>4. ASSUME NEW r \in Receivers, HasHeader(r)
      PROVE  /\ rxSeq + 1 \in 1..Len(records) /\ Aligned
             /\ HeaderValues(got[r]) = {CtLen(rxSeq + 1)}
             /\ GoodLength(CtLen(rxSeq + 1))
  <2>1. Aligned
      BY <1>4, <1>e DEF Over, HasHeader
  <2>2. PICK k : k = rxSeq + 1
      OBVIOUS
  <2>3. PastHeader
      BY <1>4 DEF PastHeader
  <2>4. k \in 1..Len(records) /\ got[r] = Hdr(CtLen(k))
      BY <1>4, <1>i, <2>1, <2>2, <2>3 DEF Aligned, InHand
  <2>5. PICK m : m = CtLen(k)
      OBVIOUS
  <2>6. m \in 1..MaxFrameSize
      BY <1>a, <2>4, <2>5, Lengths, PortAssumption, SMTT(30) DEF SeqOK
  <2>7. \A x : got[r] = Hdr(x) => x = m
    <3> SUFFICES ASSUME NEW x, got[r] = Hdr(x) PROVE x = m
        OBVIOUS
    <3>1. 1 \in 1..HdrSize
        BY PortAssumption
    <3>2. Hdr(x)[1] = <<"hdr", x, 1>> /\ Hdr(m)[1] = <<"hdr", m, 1>>
        BY <3>1 DEF Hdr
    <3>3. Hdr(x)[1] = Hdr(m)[1]
        BY <2>4, <2>5
    <3> QED
        BY <3>2, <3>3
  <2>8. {x \in 1..MaxFrameSize : got[r] = Hdr(x)} = {m}
      BY <2>4, <2>5, <2>6, <2>7
  <2>9. HeaderValues(got[r]) = {m}
      BY <2>8 DEF HeaderValues
  <2>10. GoodLength(m)
      BY <2>6, PortAssumption DEF GoodLength
  <2> QED
      BY <2>1, <2>2, <2>4, <2>5, <2>9, <2>10
<1>5. ASSUME NEW r \in Receivers, RecvHeader(r)
      PROVE  ~failed' /\ (Over' \/ Aligned')
  <2>1. /\ HasHeader(r)
        /\ rpc' = [rpc EXCEPT ![r] = "payload"] /\ got' = [got EXCEPT ![r] = <<>>]
        /\ UNCHANGED <<rxSeq, failed, wire, open>>
      BY <1>5 DEF RecvHeader, env
  <2>2. reads' = Append(reads, <<r, CtLen(rxSeq + 1)>>)
        /\ rxSeq + 1 \in 1..Len(records) /\ Aligned
      BY <1>4, <1>5, <2>1 DEF RecvHeader
  <2>3. rpc[r] # "idle" /\ got[r] # <<>>
      BY <2>1 DEF HasHeader
  <2>4. reads = <<>> /\ \A p \in Receivers : p # r => rpc[p] = "idle"
      BY <1>a, <1>d, <2>3 DEF RecvOK
  <2>5. reads'[1][2] = CtLen(rxSeq + 1)
      BY <2>2, <2>4
  <2>6. \A p \in Receivers : IF p = r THEN rpc'[p] = "payload" /\ got'[p] = <<>>
                                      ELSE rpc'[p] = "idle"
      BY <1>a, <2>1, <2>4 DEF Types
  <2>7. PastHeader /\ PastHeader' /\ ~PastFrame /\ ~PastFrame'
      BY <2>1, <2>4, <2>6 DEF PastHeader, PastFrame, HasHeader, HasFrame
  <2>8. PICK S : InHand /\ Tiles(S) /\ InTransit(S)
      BY <2>2 DEF Aligned
  <2>9. ReadPos(S)' = ReadPos(S)
      BY <2>1, <2>7 DEF ReadPos, Taken
  <2>10. InHand'
    <3>1. rxSeq < Len(records)
        BY <1>i, <2>2
    <3> QED
        BY <1>c, <1>h, <2>1, <2>5, <2>6, <3>1 DEF InHand, HasHeader, HasFrame, CtLen
  <2> QED
      BY <1>e, <1>j, <2>1, <2>8, <2>9, <2>10
<1>6. ASSUME NEW r \in Receivers PROVE ~RecvBadLength(r)
    BY <1>4 DEF RecvBadLength
<1>7. ASSUME NEW r \in Receivers, HasFrame(r)
      PROVE  /\ rxSeq + 1 \in 1..Len(records) /\ Aligned
             /\ ~Exhausted(rxSeq) /\ Opens(got[r], rxSeq, rxSeq + 1)
  <2>1. Aligned
      BY <1>7, <1>e DEF Over, HasFrame
  <2>2. PICK k : k = rxSeq + 1
      OBVIOUS
  <2>3. PastFrame
      BY <1>7 DEF PastFrame
  <2>4. k \in 1..Len(records) /\ rxSeq < Len(records)
        /\ got[r] = Body(k, CtLen(k))
      BY <1>7, <1>i, <2>1, <2>2, <2>3 DEF Aligned, InHand
  <2>5. Len(records) <= SeqMax /\ records[k].nonce = rxSeq
    <3>1. records[k].nonce = k - 1 /\ Len(records) <= SeqMax
        BY <1>a, <2>4 DEF SeqOK
    <3> QED
        BY <1>i, <2>2, <3>1
  <2>6. ~Exhausted(rxSeq)
      BY <1>i, <2>4, <2>5 DEF Exhausted
  <2>7. rxSeq % (SeqMax + 1) = rxSeq
      BY <1>i
  <2>8. Opens(got[r], rxSeq, k)
      BY <2>4, <2>5, <2>7 DEF Opens, nonceFor, CtLen
  <2> QED
      BY <2>1, <2>2, <2>4, <2>6, <2>8
<1>8. ASSUME NEW r \in Receivers, RecvOpens(r)
      PROVE  ~failed' /\ (Over' \/ Aligned')
  <2>1. /\ HasFrame(r) /\ rpc' = [rpc EXCEPT ![r] = "idle"]
        /\ rxSeq' = rxSeq + 1 /\ UNCHANGED <<failed, wire, open>>
      BY <1>8 DEF RecvOpens, env
  <2>2. PICK k : k = rxSeq + 1
      OBVIOUS
  <2>3. k \in 1..Len(records) /\ Aligned
      BY <1>7, <2>1, <2>2
  <2>4. \A p \in Receivers : rpc'[p] = "idle"
      BY <1>a, <1>d, <2>1 DEF RecvOK, HasFrame, Types
  <2>5. PastFrame /\ ~PastFrame' /\ ~PastHeader'
      BY <2>1, <2>4 DEF PastFrame, PastHeader, HasFrame, HasHeader
  <2>6. PICK S : InHand /\ Tiles(S) /\ InTransit(S)
      BY <2>3 DEF Aligned
  <2>7. ReadPos(S)' = ReadPos(S)
    <3>1. S[k + 1] = S[k] + FrameLen(k) /\ S[k + 1] \in Nat
      <4>1. k + 1 \in 1..(Len(records) + 1)
          BY <1>i, <2>3
      <4> QED
          BY <2>3, <2>6, <4>1 DEF Tiles
    <3>2. ReadPos(S) = S[k] + FrameLen(k)
        BY <2>2, <2>5 DEF ReadPos, Taken
    <3>3. ReadPos(S)' = S[k + 1] + 0
        BY <2>1, <2>2, <2>5 DEF ReadPos, Taken
    <3> QED
        BY <3>1, <3>2, <3>3
  <2>8. InHand'
      BY <2>4, <2>5 DEF InHand, HasHeader, HasFrame
  <2> QED
      BY <1>e, <1>j, <2>1, <2>6, <2>7, <2>8
<1>9. ASSUME NEW r \in Receivers PROVE ~RecvCorrupted(r)
    BY <1>7 DEF RecvCorrupted
<1>10. CASE CloseStream \/ UNCHANGED vars
  <2>1. UNCHANGED <<wire, rxSeq, rpc, got, reads, failed>> /\ (open' => open)
      BY <1>10 DEF CloseStream, vars, rvars, env
  <2>2. (PastHeader' <=> PastHeader) /\ (PastFrame' <=> PastFrame)
        /\ (\A r : HasHeader(r)' <=> HasHeader(r))
        /\ (\A r : HasFrame(r)' <=> HasFrame(r))
      BY <2>1 DEF PastHeader, PastFrame, HasHeader, HasFrame
  <2>3. Over => Over'
      BY <2>1 DEF Over
  <2>4. Aligned => Aligned'
    <3> HAVE Aligned
    <3>1. PICK S : InHand /\ Tiles(S) /\ InTransit(S)
        BY DEF Aligned
    <3>2. ReadPos(S)' = ReadPos(S)
        BY <1>c, <2>1, <2>2 DEF ReadPos, Taken, FrameLen, CtLen
    <3>3. InHand'
        BY <1>c, <2>1, <2>2, <3>1 DEF InHand, CtLen, Hdr, Body
    <3> QED
        BY <1>j, <2>1, <3>1, <3>2, <3>3
  <2> QED
      BY <1>e, <2>1, <2>3, <2>4
<1> QED
    BY <1>1, <1>2, <1>3, <1>5, <1>6, <1>8, <1>9, <1>10 DEF RecvStep

\* When callers await each call, recv fails on a frame only after a send has
\* failed inside one.
THEOREM PortFailuresNeedCause == Spec => []FailuresHaveCause
<1>1. Init => CauseOK
  <2> SUFFICES ASSUME Init PROVE CauseOK
      OBVIOUS
  <2>1. /\ Len(records) = 0 /\ Len(wire) = 0 /\ rxSeq = 0 /\ ~failed
        /\ \A r \in Receivers : rpc[r] = "idle"
        /\ \A s \in Senders : spc[s] = "idle"
      BY DEF Init
  <2>2. ~PastHeader /\ ~PastFrame
      BY <2>1 DEF PastHeader, PastFrame, HasHeader, HasFrame
  <2>3. InHand
      BY <2>1, <2>2 DEF InHand, HasHeader, HasFrame
  <2> DEFINE S == [k \in 1..1 |-> 0]
  <2>4. S[1] = 0 /\ S \in [1..1 -> Nat]
      OBVIOUS
  <2> HIDE DEF S
  <2>5. 1..Len(records) = {} /\ 1..Len(wire) = {} /\ Len(records) + 1 = 1
        /\ rxSeq + 1 = 1
      BY <2>1
  <2>6. Tiles(S)
      BY <2>4, <2>5 DEF Tiles
  <2>7. InTransit(S)
    <3>1. Taken = 0
        BY <2>2 DEF Taken
    <3>2. ReadPos(S) = 0
      <4>1. ReadPos(S) = S[1] + Taken
          BY <2>5 DEF ReadPos
      <4> QED
          BY <2>4, <3>1, <4>1
    <3>3. WritePos(S) = 0
      <4>1. ~\E s \in Senders : spc[s] = "header"
          BY <2>1
      <4>2. WritePos(S) = S[1]
          BY <2>5, <4>1 DEF WritePos
      <4> QED
          BY <2>4, <4>2
    <3>4. ReadPos(S) + Len(wire) = WritePos(S)
        BY <2>1, <3>2, <3>3
    <3> QED
        BY <2>5, <3>4, Zenon DEF InTransit
  <2> QED
      BY <2>1, <2>3, <2>6, <2>7 DEF CauseOK, Aligned
<1>2. Inv /\ Inv' /\ CauseOK /\ [Next]_vars => CauseOK'
    BY CauseOKSend, CauseOKRecv DEF Next
<1>3. CauseOK => FailuresHaveCause
    BY DEF CauseOK, Clean, FailuresHaveCause
<1> QED
    BY <1>1, <1>2, <1>3, Invariance, PTL DEF Spec
=============================================================================
