------------------------------ MODULE Channel ------------------------------
(***************************************************************************)
(* One direction of an established Z-Wing channel: the goroutines that     *)
(* call Conn.Write at one end, the goroutines that call Conn.Read at the   *)
(* other, and the raw net.Conn between them (channel.go, wire.go).  The    *)
(* two directions share no state but the raw connection; module Session    *)
(* has both, and the flow control between them.                            *)
(*                                                                         *)
(* Plaintext bytes are <<call, offset>> pairs: the Write call they belong  *)
(* to and their place in its buffer.  The raw connection carries cells:    *)
(*   <<"hdr", n, i>>    byte i of the length header of an n byte frame     *)
(*   <<"body", j, i>>   byte i of the ciphertext of record j               *)
(*   <<"junk", 0, 0>>   a byte damaged in transit                          *)
(* The AEAD is ideal: a frame opens under sequence number s exactly when   *)
(* it is, byte for byte, the ciphertext of a record sealed under s.        *)
(***************************************************************************)
EXTENDS Integers, Sequences, FiniteSets

CONSTANTS
    Writers,            \* goroutines calling Write at the sending end
    Readers,            \* goroutines calling Read at the receiving end
    Free,               \* the holder of a mutex nobody holds
    HdrSize,            \* bytes of a frame's length header (4 in the code)
    Overhead,           \* bytes of an AEAD tag (16 in the code)
    MaxFrameSize,       \* 2^20 in the code
    SeqMax,             \* the largest sequence number, 2^64 - 1 in the code
    WriteSizes,         \* lengths of the buffers given to Write
    ReadSizes,          \* lengths of the buffers given to Read
    WireFaults,         \* subset of {"corrupt", "lose", "duplicate"}
    MaxWrites,          \* bound: Write calls
    MaxWireFaults,      \* bound: damage done in transit
    MaxReadDeadlines,   \* bound: read deadlines that expire
    MaxWriteDeadlines   \* bound: write deadlines that expire

ASSUME ProcAssumption ==
    /\ Free \notin Writers
    /\ Free \notin Readers

ASSUME SizeAssumption ==
    /\ HdrSize \in Nat \ {0}
    /\ Overhead \in Nat
    /\ MaxFrameSize \in Nat
    /\ Overhead < MaxFrameSize
    /\ SeqMax \in Nat
    /\ WriteSizes \subseteq Nat
    /\ ReadSizes \subseteq Nat

ASSUME BoundAssumption ==
    /\ MaxWrites \in Nat
    /\ MaxWireFaults \in Nat
    /\ MaxReadDeadlines \in Nat
    /\ MaxWriteDeadlines \in Nat

VARIABLES
    writeMu,      \* holder of Conn.writeMu
    writeSeq,     \* Conn.writeSeq
    wpc,          \* where each writer is in Write
    wlen,         \* len(b) of its call
    written,      \* the local variable written
    wcall,        \* the number of its call (history)
    writes,       \* Write calls made so far
    records,      \* every record sealed, in order (history)
    stream,       \* every plaintext byte sealed, in order (history)
    torn,         \* records whose writeFrame returned an error (history)
    wire,         \* cells in transit
    sOpen,        \* the sender's raw connection is open
    rOpen,        \* the receiver's raw connection is open
    readMu,       \* holder of Conn.readMu
    readSeq,      \* Conn.readSeq
    readBuf,      \* Conn.readBuf
    rpc,          \* where each reader is in Read
    rcap,         \* len(b) of its call
    need,         \* payload length readFrame is waiting for, 0 before
    delivered,    \* every plaintext byte returned by Read (history)
    readErrs,     \* every kind of error Read has returned (history)
    cut,          \* bytes of a frame were damaged in transit, or lost
                  \* to a deadline that expired inside it (history)
    wireFaults, readDeadlines, writeDeadlines   \* faults so far

wvars == <<writeMu, writeSeq, wpc, wlen, written, wcall, writes, records,
           stream, torn>>
rvars == <<readMu, readSeq, readBuf, rpc, rcap, need, delivered, readErrs>>
fvars == <<cut, wireFaults, readDeadlines, writeDeadlines>>
vars  == <<wvars, wire, sOpen, rOpen, rvars, fvars>>

Junk   == <<"junk", 0, 0>>
Lesser(a, b) == IF a <= b THEN a ELSE b

(***************************************************************************)
(* Frames (wire.go).                                                       *)
(***************************************************************************)
Hdr(n)   == [i \in 1..HdrSize |-> <<"hdr", n, i>>]
CtLen(j) == records[j].len + Overhead
Body(j)  == [i \in 1..CtLen(j) |-> <<"body", j, i>>]

\* What binary.BigEndian.Uint32 makes of the next HdrSize bytes: the length
\* that was written, or, when they are not an intact header, any number.
HeaderValues ==
    LET h == SubSeq(wire, 1, HdrSize)
    IN  IF \E n \in 1..MaxFrameSize : h = Hdr(n)
        THEN {n \in 1..MaxFrameSize : h = Hdr(n)}
        ELSE 0..(MaxFrameSize + 1)

Drop(s, n) == SubSeq(s, n + 1, Len(s))

(***************************************************************************)
(* Write (channel.go:120).                                                 *)
(***************************************************************************)
WriteCall(w) ==
    /\ wpc[w] = "idle"
    /\ writes < MaxWrites
    /\ \E n \in WriteSizes : wlen' = [wlen EXCEPT ![w] = n]
    /\ writes' = writes + 1
    /\ wcall' = [wcall EXCEPT ![w] = writes + 1]
    /\ written' = [written EXCEPT ![w] = 0]
    /\ wpc' = [wpc EXCEPT ![w] = "lock"]
    /\ UNCHANGED <<writeMu, writeSeq, records, stream, torn,
                   wire, sOpen, rOpen, rvars, fvars>>

UnlockedAlways(mu) == TRUE    \* mutant: no mutual exclusion

Unlocked(mu) == mu = Free

WriteLock(w) ==
    /\ wpc[w] = "lock"
    /\ Unlocked(writeMu)
    /\ writeMu' = w
    /\ wpc' = [wpc EXCEPT ![w] = "loop"]
    /\ UNCHANGED <<writeSeq, wlen, written, wcall, writes, records, stream,
                   torn, wire, sOpen, rOpen, rvars, fvars>>

maxPlain == MaxFrameSize - Overhead

\* The length of b[written:end].
ChunkLen(w) == Lesser(maxPlain, wlen[w] - written[w])

NeverExhausted(seq) == FALSE    \* mutant: the counter wraps round

SeqExhausted(seq) == seq = SeqMax

MoreToWriteOffByOne(w) == written[w] <= wlen[w]    \* mutant

MoreToWrite(w) == written[w] < wlen[w]

Seal(w) ==
    /\ wpc[w] = "loop"
    /\ MoreToWrite(w)
    /\ ~SeqExhausted(writeSeq)
    /\ LET n == ChunkLen(w)
       IN  /\ records' = Append(records,
                            [nonce |-> writeSeq, lo |-> Len(stream), len |-> n])
           /\ stream' = stream \o
                            [i \in 1..n |-> <<wcall[w], written[w] + i>>]
    /\ writeSeq' = (writeSeq + 1) % (SeqMax + 1)
    /\ wpc' = [wpc EXCEPT ![w] = "header"]
    /\ UNCHANGED <<writeMu, wlen, written, wcall, writes, torn,
                   wire, sOpen, rOpen, rvars, fvars>>

\* The record writeFrame is working on is always the last one sealed.
WriteHeader(w) ==
    /\ wpc[w] = "header"
    /\ CtLen(Len(records)) <= MaxFrameSize
    /\ sOpen
    /\ wire' = wire \o Hdr(CtLen(Len(records)))
    /\ wpc' = [wpc EXCEPT ![w] = "body"]
    /\ UNCHANGED <<writeMu, writeSeq, wlen, written, wcall, writes, records,
                   stream, torn, sOpen, rOpen, rvars, fvars>>

WriteBody(w) ==
    /\ wpc[w] = "body"
    /\ sOpen
    /\ wire' = wire \o Body(Len(records))
    /\ written' = [written EXCEPT ![w] = @ + records[Len(records)].len]
    /\ wpc' = [wpc EXCEPT ![w] = "loop"]
    /\ UNCHANGED <<writeMu, writeSeq, wlen, wcall, writes, records,
                   stream, torn, sOpen, rOpen, rvars, fvars>>

\* What writeFrame is handing to raw.Write.
Outgoing(w) == IF wpc[w] = "header" THEN Hdr(CtLen(Len(records)))
                                    ELSE Body(Len(records))

Oversize(w) == wpc[w] = "header" /\ CtLen(Len(records)) > MaxFrameSize

\* mutant: the sequence number is given back when the frame fails
AbandonFrameKeepSeq(w, partial) ==
    /\ wire' = wire \o SubSeq(Outgoing(w), 1, partial)
    /\ torn' = torn \cup {Len(records)}
    /\ writeSeq' = records[Len(records)].nonce
    /\ writeMu' = Free
    /\ wpc' = [wpc EXCEPT ![w] = "idle"]
    /\ UNCHANGED <<wlen, written, wcall, writes, records, stream,
                   sOpen, rOpen, rvars, cut, wireFaults, readDeadlines>>

\* writeFrame returns an error after raw.Write took partial bytes: the sequence
\* number is spent, the chunk is not counted in written, and Write returns.
AbandonFrame(w, partial) ==
    /\ wire' = wire \o SubSeq(Outgoing(w), 1, partial)
    /\ torn' = torn \cup {Len(records)}
    /\ writeMu' = Free
    /\ wpc' = [wpc EXCEPT ![w] = "idle"]
    /\ UNCHANGED <<writeSeq, wlen, written, wcall, writes, records, stream,
                   sOpen, rOpen, rvars, cut, wireFaults, readDeadlines>>

\* The error is ErrMessageTooLarge, or one end is closed.
RefusedAt(w) == IF Oversize(w) THEN {0}
                ELSE {p \in 0..(Len(Outgoing(w)) - 1) : ~sOpen \/ ~rOpen}

WriteRefused(w) ==
    /\ wpc[w] \in {"header", "body"}
    /\ \E partial \in RefusedAt(w) : AbandonFrame(w, partial)
    /\ UNCHANGED writeDeadlines

\* The write deadline expires.
WriteExpired(w) ==
    /\ wpc[w] \in {"header", "body"}
    /\ ~Oversize(w)
    /\ writeDeadlines < MaxWriteDeadlines
    /\ writeDeadlines' = writeDeadlines + 1
    /\ \E partial \in 0..(Len(Outgoing(w)) - 1) : AbandonFrame(w, partial)

\* The loop ends: every byte is written, or the sequence is exhausted.
WriteReturn(w) ==
    /\ wpc[w] = "loop"
    /\ MoreToWrite(w) => SeqExhausted(writeSeq)
    /\ writeMu' = Free
    /\ wpc' = [wpc EXCEPT ![w] = "idle"]
    /\ UNCHANGED <<writeSeq, wlen, written, wcall, writes, records, stream,
                   torn, wire, sOpen, rOpen, rvars, fvars>>

(***************************************************************************)
(* Read (channel.go:83).                                                   *)
(***************************************************************************)
ReadCall(r) ==
    /\ rpc[r] = "idle"
    /\ \E n \in ReadSizes : rcap' = [rcap EXCEPT ![r] = n]
    /\ rpc' = [rpc EXCEPT ![r] = "lock"]
    /\ UNCHANGED <<readMu, readSeq, readBuf, need, delivered, readErrs,
                   wvars, wire, sOpen, rOpen, fvars>>

ReadLock(r) ==
    /\ rpc[r] = "lock"
    /\ Unlocked(readMu)
    /\ readMu' = r
    /\ rpc' = [rpc EXCEPT ![r] = "locked"]
    /\ UNCHANGED <<readSeq, readBuf, rcap, need, delivered, readErrs,
                   wvars, wire, sOpen, rOpen, fvars>>

\* mutant: the rest of a record larger than the caller's buffer is dropped
CopyDropRest(r, p) ==
    /\ delivered' = delivered \o SubSeq(p, 1, Lesser(rcap[r], Len(p)))
    /\ readBuf' = <<>>

\* copy(b, p): what the caller gets; the rest stays in, or becomes, readBuf.
Copy(r, p) ==
    LET n == Lesser(rcap[r], Len(p))
    IN  /\ delivered' = delivered \o SubSeq(p, 1, n)
        /\ readBuf' = Drop(p, n)

ReturnFromRead(r) ==
    /\ readMu' = Free
    /\ need' = 0
    /\ rpc' = [rpc EXCEPT ![r] = "idle"]
    /\ UNCHANGED <<rcap, wvars, sOpen, rOpen>>

\* readBuf holds the rest of an earlier record: serve it and nothing else.
ReadBuffered(r) ==
    /\ rpc[r] = "locked"
    /\ readBuf # <<>>
    /\ Copy(r, readBuf)
    /\ ReturnFromRead(r)
    /\ UNCHANGED <<readSeq, readErrs, wire, fvars>>

\* The first io.ReadFull of readFrame gets the whole header, and its length is
\* acceptable.
ReadHeader(r) ==
    /\ rpc[r] = "locked"
    /\ readBuf = <<>>
    /\ rOpen
    /\ Len(wire) >= HdrSize
    /\ \E n \in HeaderValues \cap 1..MaxFrameSize : need' = n
    /\ wire' = Drop(wire, HdrSize)
    /\ rpc' = [rpc EXCEPT ![r] = "body"]
    /\ UNCHANGED <<readMu, readSeq, readBuf, rcap, delivered, readErrs,
                   wvars, sOpen, rOpen, fvars>>

\* Read returns an error having taken n cells from the connection.
ReadFails(r, err, n) ==
    /\ wire' = Drop(wire, n)
    /\ readErrs' = readErrs \cup {err}
    /\ ReturnFromRead(r)
    /\ UNCHANGED <<readSeq, readBuf, delivered>>

\* n > MaxFrameSize, or n == 0: the header is consumed, nothing after it.
ReadBadLength(r) ==
    /\ rpc[r] = "locked"
    /\ readBuf = <<>>
    /\ rOpen
    /\ Len(wire) >= HdrSize
    /\ \E n \in HeaderValues \ 1..MaxFrameSize :
            ReadFails(r, IF n = 0 THEN "invalid" ELSE "toolarge", HdrSize)
    /\ UNCHANGED fvars

\* mutant: waits for one byte more than the frame has
FrameArrivedLate(r) ==
    /\ rpc[r] = "body"
    /\ rOpen
    /\ Len(wire) > need

\* The second io.ReadFull of readFrame has the whole payload.
FrameArrived(r) ==
    /\ rpc[r] = "body"
    /\ rOpen
    /\ Len(wire) >= need

OpensAnySeq(frame, seq, j) == frame = Body(j)    \* mutant: nonce not bound

\* aead.Open succeeds under sequence number seq with the plaintext of record j.
Opens(frame, seq, j) ==
    /\ records[j].nonce = seq
    /\ frame = Body(j)

Plaintext(j) == SubSeq(stream, records[j].lo + 1, records[j].lo + records[j].len)

ReadOpen(r) ==
    /\ FrameArrived(r)
    /\ ~SeqExhausted(readSeq)
    /\ \E j \in 1..Len(records) :
        /\ Opens(SubSeq(wire, 1, need), readSeq, j)
        /\ Copy(r, Plaintext(j))
    /\ readSeq' = readSeq + 1
    /\ wire' = Drop(wire, need)
    /\ ReturnFromRead(r)
    /\ UNCHANGED <<readErrs, fvars>>

ReadCorrupted(r) ==
    /\ FrameArrived(r)
    /\ ~SeqExhausted(readSeq)
    /\ ~\E j \in 1..Len(records) : Opens(SubSeq(wire, 1, need), readSeq, j)
    /\ ReadFails(r, "corrupted", need)
    /\ UNCHANGED fvars

ReadExhausted(r) ==
    /\ FrameArrived(r)
    /\ SeqExhausted(readSeq)
    /\ ReadFails(r, "exhausted", need)
    /\ UNCHANGED fvars

\* Read is blocked in, or about to enter, an io.ReadFull.
InReadFull(r) == \/ rpc[r] = "locked" /\ readBuf = <<>>
                 \/ rpc[r] = "body"

Wanted(r) == IF rpc[r] = "body" THEN need ELSE HdrSize

\* The sender closed: io.ReadFull takes what is left and reports the end.
ReadEOF(r) ==
    /\ InReadFull(r)
    /\ rOpen
    /\ ~sOpen
    /\ Len(wire) < Wanted(r)
    /\ ReadFails(r, "eof", Len(wire))
    /\ UNCHANGED fvars

\* The receiver closed its own connection under a blocked Read.
ReadClosed(r) ==
    /\ InReadFull(r)
    /\ ~rOpen
    /\ ReadFails(r, "closed", 0)
    /\ UNCHANGED fvars

\* The read deadline expires; what io.ReadFull already took is lost.
ReadExpired(r) ==
    /\ InReadFull(r)
    /\ rOpen
    /\ readDeadlines < MaxReadDeadlines
    /\ readDeadlines' = readDeadlines + 1
    /\ \E n \in 0..Lesser(Len(wire), Wanted(r) - 1) :
        /\ ReadFails(r, "timeout", n)
        /\ cut' = (cut \/ rpc[r] = "body" \/ n > 0)
    /\ UNCHANGED <<wireFaults, writeDeadlines>>

(***************************************************************************)
(* Close (channel.go:146) takes neither mutex.  Data already written is    *)
(* still delivered after the sender closes.                                *)
(***************************************************************************)
CloseSender ==
    /\ sOpen
    /\ sOpen' = FALSE
    /\ UNCHANGED <<wvars, wire, rOpen, rvars, fvars>>

CloseReceiver ==
    /\ rOpen
    /\ rOpen' = FALSE
    /\ UNCHANGED <<wvars, wire, sOpen, rvars, fvars>>

(***************************************************************************)
(* The raw connection (any net.Conn) damages what it carries.              *)
(***************************************************************************)
Damage(kind) ==
    /\ kind \in WireFaults
    /\ wireFaults < MaxWireFaults
    /\ wireFaults' = wireFaults + 1
    /\ cut' = (cut \/ kind # "duplicate")
    /\ UNCHANGED <<wvars, sOpen, rOpen, rvars, readDeadlines, writeDeadlines>>

Corrupt ==
    /\ Damage("corrupt")
    /\ \E i \in 1..Len(wire) : wire' = [wire EXCEPT ![i] = Junk]

Lose ==
    /\ Damage("lose")
    /\ \E i \in 1..Len(wire) : wire' = SubSeq(wire, 1, i - 1) \o Drop(wire, i)

\* Records whose whole frame was handed to the connection.
Framed == {j \in 1..Len(records) :
              /\ j \notin torn
              /\ j = Len(records) => \A w \in Writers :
                                        wpc[w] \notin {"header", "body"}}

Duplicate ==
    /\ Damage("duplicate")
    /\ \A w \in Writers : wpc[w] # "body"
    /\ \E j \in Framed : wire' = wire \o Hdr(CtLen(j)) \o Body(j)

-----------------------------------------------------------------------------
Init ==
    /\ writeMu = Free
    /\ writeSeq = 0
    /\ wpc = [w \in Writers |-> "idle"]
    /\ wlen = [w \in Writers |-> 0]
    /\ written = [w \in Writers |-> 0]
    /\ wcall = [w \in Writers |-> 0]
    /\ writes = 0
    /\ records = <<>>
    /\ stream = <<>>
    /\ torn = {}
    /\ wire = <<>>
    /\ sOpen = TRUE
    /\ rOpen = TRUE
    /\ readMu = Free
    /\ readSeq = 0
    /\ readBuf = <<>>
    /\ rpc = [r \in Readers |-> "idle"]
    /\ rcap = [r \in Readers |-> 0]
    /\ need = 0
    /\ delivered = <<>>
    /\ readErrs = {}
    /\ cut = FALSE
    /\ wireFaults = 0
    /\ readDeadlines = 0
    /\ writeDeadlines = 0

\* The steps of a writer that has entered Write and of a reader in Read.
WriterStep(w) ==
    \/ Seal(w)
    \/ WriteHeader(w)
    \/ WriteBody(w)
    \/ WriteRefused(w)
    \/ WriteReturn(w)

ReaderStep(r) ==
    \/ ReadBuffered(r)
    \/ ReadHeader(r)
    \/ ReadBadLength(r)
    \/ ReadOpen(r)
    \/ ReadCorrupted(r)
    \/ ReadExhausted(r)
    \/ ReadEOF(r)
    \/ ReadClosed(r)

Next ==
    \/ \E w \in Writers : WriteCall(w) \/ WriteLock(w) \/ WriterStep(w)
                             \/ WriteExpired(w)
    \/ \E r \in Readers : ReadCall(r) \/ ReadLock(r) \/ ReaderStep(r)
                             \/ ReadExpired(r)
    \/ CloseSender
    \/ CloseReceiver
    \/ Corrupt
    \/ Lose
    \/ Duplicate

Spec == Init /\ [][Next]_vars

\* Goroutines that can run do run, Go's mutex serves every waiter (its
\* starvation mode is first in, first out), and the receiving application
\* keeps calling Read.  Nobody is obliged to write or to close.
Fairness ==
    /\ \A w \in Writers : WF_vars(WriterStep(w)) /\ SF_vars(WriteLock(w))
    /\ \A r \in Readers : WF_vars(ReaderStep(r)) /\ SF_vars(ReadLock(r))
                             /\ WF_vars(ReadCall(r))

FairSpec == Spec /\ Fairness

-----------------------------------------------------------------------------
Errors == {"invalid", "toolarge", "corrupted", "exhausted",
           "eof", "closed", "timeout"}

Cells == {"hdr", "body", "junk"} \X Nat \X Nat

\* The type of every variable: Conn's fields and the locals of Read and Write.
TypeOK ==
    /\ writeMu \in Writers \cup {Free}
    /\ writeSeq \in 0..SeqMax
    /\ wpc \in [Writers -> {"idle", "lock", "loop", "header", "body"}]
    /\ wlen \in [Writers -> Nat]
    /\ written \in [Writers -> Nat]
    /\ wcall \in [Writers -> Nat]
    /\ writes \in Nat
    /\ records \in Seq([nonce : Nat, lo : Nat, len : Nat \ {0}])
    /\ stream \in Seq(Nat \X Nat)
    /\ torn \subseteq 1..Len(records)
    /\ wire \in Seq(Cells)
    /\ sOpen \in BOOLEAN
    /\ rOpen \in BOOLEAN
    /\ readMu \in Readers \cup {Free}
    /\ readSeq \in 0..SeqMax
    /\ readBuf \in Seq(Nat \X Nat)
    /\ rpc \in [Readers -> {"idle", "lock", "locked", "body"}]
    /\ rcap \in [Readers -> Nat]
    /\ need \in 0..MaxFrameSize
    /\ delivered \in Seq(Nat \X Nat)
    /\ readErrs \subseteq Errors
    /\ cut \in BOOLEAN
    /\ wireFaults \in Nat
    /\ readDeadlines \in Nat
    /\ writeDeadlines \in Nat

\* What Read returns is a prefix of what Write sealed: whatever the raw
\* connection corrupts, loses or repeats, and however deadlines and concurrent
\* calls fall, no byte is skipped, repeated, reordered or invented.
StreamPrefix ==
    /\ Len(delivered) <= Len(stream)
    /\ delivered = SubSeq(stream, 1, Len(delivered))

\* No two records are sealed under one nonce, at the top of the sequence space
\* too: Write stops at the last number instead of wrapping round.
NonceUnique ==
    \A i, j \in 1..Len(records) : records[i].nonce = records[j].nonce => i = j

\* The bytes of one Write are contiguous in the stream, so writeMu keeps calls
\* that span several records from interleaving.
WriteContiguous ==
    \A i, j \in 1..Len(stream) :
        stream[i][1] = stream[j][1] => stream[j][2] - stream[i][2] = j - i

\* A chunk that Write did not count in its result, because writeFrame failed on
\* it, is never read by the peer, nor is anything sealed after it: a torn frame
\* ends the stream, and a caller that resends the rest on a new channel
\* duplicates nothing.
TornStops ==
    \A t \in torn : Len(delivered) + Len(readBuf) <= records[t].lo

IntegrityErrors == {"invalid", "toolarge", "corrupted", "exhausted"}

\* Read reports a malformed, oversize, unauthentic or surplus frame only if
\* something damaged the stream: the raw connection, a torn frame, or a read
\* deadline that expired inside a frame.  A deadline between frames is harmless.
ErrorsHaveCause ==
    wireFaults = 0 /\ torn = {} /\ ~cut => readErrs \cap IntegrityErrors = {}

\* Conn is a net.Conn: a read deadline alone, on an intact connection whose
\* writers all succeed, never makes a later Read report a damaged stream.
DeadlineKeepsStream ==
    wireFaults = 0 /\ torn = {} => readErrs \cap IntegrityErrors = {}

\* Every byte sealed is delivered at last, the sender's Close, repeated frames
\* and deadlines between frames notwithstanding, unless the receiver closes, a
\* frame is torn, bytes are damaged in transit, or a read deadline expires
\* inside a frame.
EventualDelivery ==
    \A n \in 1..(SeqMax * maxPlain) :
        Len(stream) >= n ~> Len(delivered) >= n \/ ~rOpen \/ torn # {} \/ cut

\* The channel implements a byte stream: what is sealed is sent, what Read
\* returns is got, and each torn frame is a failed write.
Stream == INSTANCE ByteStream WITH
              sent <- stream, got <- delivered,
              cutoffs <- {records[t].lo : t \in torn}

\* Every step of Read, Write, Close and the raw connection is a step of the
\* byte stream, or leaves it unchanged.
ImplementsByteStream == Stream!Spec
=============================================================================
