---------------------------- MODULE PortChannel ----------------------------
(***************************************************************************)
(* One direction of the channel of the TypeScript and Python ports         *)
(* (js/channel.ts, py/channel.py).  There is no mutex: send and recv are   *)
(* async, run up to their next await without interruption, and any number  *)
(* of calls may be in flight unless the caller awaits each one.  The Python*)
(* port is the same code with every await a blocking call, so its callers  *)
(* are the ones that await.                                                *)
(*                                                                         *)
(* The DuplexStream is external: write takes its bytes at once and settles *)
(* later, reads are served in the order they were asked for, each with     *)
(* exactly the bytes it asked for.  Cells and the ideal AEAD are as in     *)
(* module Channel; recv returns whole records.                             *)
(***************************************************************************)
EXTENDS Integers, Sequences, FiniteSets

CONSTANTS
    Senders,        \* calls of send that may be in flight
    Receivers,      \* calls of recv that may be in flight
    HdrSize, Overhead, MaxFrameSize, SeqMax,    \* as in module Channel
    SendSizes,      \* lengths of the plaintexts sent (sending none is a no-op)
    MaxSends,       \* bound: calls of send
    MaxRejections   \* bound: writes that the stream rejects

ASSUME PortAssumption ==
    /\ HdrSize \in Nat \ {0}
    /\ Overhead \in Nat
    /\ MaxFrameSize \in Nat
    /\ Overhead < MaxFrameSize
    /\ SeqMax \in Nat
    /\ SendSizes \subseteq Nat \ {0}
    /\ MaxSends \in Nat
    /\ MaxRejections \in Nat

VARIABLES
    txSeq, rxSeq,   \* the sequence numbers of the two Channel objects
    spc,            \* "idle", or the await each send is at: "header",
                    \* "payload", or "rejected" when that write failed
    left,           \* bytes of its plaintext not yet sealed
    rec,            \* the record it is writing
    sends,          \* calls of send so far
    records,        \* every record sealed: nonce and length (history)
    wire,           \* bytes in transit
    open,           \* the stream is open
    awaited,        \* callers await each call before the next
    rpc,            \* "idle", or what each recv awaits: "header", "payload"
    got,            \* the bytes its read came back with, once it did
    reads,          \* reads the stream has not served: recv and size
    received,       \* the records recv returned, in order (history)
    failed,         \* a recv failed on a malformed or unauthentic frame
    torn,           \* a send failed in a frame (history)
    rejections

svars == <<txSeq, spc, left, rec, sends, records, torn, rejections>>
rvars == <<rxSeq, rpc, got, reads, received, failed>>
env   == <<open, awaited>>
vars  == <<svars, wire, env, rvars>>

maxPlain == MaxFrameSize - Overhead

Hdr(n)     == [i \in 1..HdrSize |-> <<"hdr", n, i>>]
Body(j, n) == [i \in 1..n |-> <<"body", j, i>>]

Init ==
    /\ txSeq = 0
    /\ rxSeq = 0
    /\ spc = [s \in Senders |-> "idle"]
    /\ left = [s \in Senders |-> 0]
    /\ rec = [s \in Senders |-> 0]
    /\ sends = 0
    /\ records = <<>>
    /\ wire = <<>>
    /\ open = TRUE
    /\ awaited \in BOOLEAN
    /\ rpc = [r \in Receivers |-> "idle"]
    /\ got = [r \in Receivers |-> <<>>]
    /\ reads = <<>>
    /\ received = <<>>
    /\ failed = FALSE
    /\ torn = FALSE
    /\ rejections = 0

(***************************************************************************)
(* send.                                                                   *)
(***************************************************************************)
MayCall(pc) == awaited => \A p \in DOMAIN pc : pc[p] = "idle"

\* await conn.write(bytes): the stream takes them all and the call goes on at
\* await, or takes a part and the promise is rejected.
WriteThenAwait(s, bytes, await) ==
    \/ /\ open
       /\ wire' = wire \o bytes
       /\ spc' = [spc EXCEPT ![s] = await]
       /\ UNCHANGED rejections
    \/ /\ rejections < MaxRejections \/ ~open
       /\ rejections' = IF open THEN rejections + 1 ELSE rejections
       /\ \E n \in 0..(IF open THEN Len(bytes) - 1 ELSE 0) :
             wire' = wire \o SubSeq(bytes, 1, n)
       /\ spc' = [spc EXCEPT ![s] = "rejected"]

Exhausted(seq) == seq = SeqMax

\* nonceFor keeps the low 64 bits of the counter.
nonceFor(seq) == seq % (SeqMax + 1)

\* mutant: the counter advances only after a successful write
TakeSeqIfWritten(s) ==
    txSeq' = IF spc'[s] = "rejected" THEN txSeq ELSE txSeq + 1

\* this.txSeq += 1n comes before the await: a failed send uses up its number.
TakeSeq(s) == txSeq' = txSeq + 1

\* One turn of the loop, with n bytes to go, up to the first await.
Chunk(s, n) ==
    /\ ~Exhausted(txSeq)
    /\ LET len == IF n < maxPlain THEN n ELSE maxPlain
       IN  /\ records' = Append(records, [nonce |-> nonceFor(txSeq), len |-> len])
           /\ left' = [left EXCEPT ![s] = n - len]
           /\ WriteThenAwait(s, Hdr(len + Overhead), "header")
    /\ TakeSeq(s)
    /\ rec' = [rec EXCEPT ![s] = Len(records')]

Send(s) ==
    /\ spc[s] = "idle"
    /\ MayCall(spc)
    /\ sends < MaxSends
    /\ sends' = sends + 1
    /\ \E n \in SendSizes : Chunk(s, n)
    /\ UNCHANGED <<torn, env, rvars>>

\* The header's write settled: the payload is written.
SendPayload(s) ==
    /\ spc[s] = "header"
    /\ WriteThenAwait(s, Body(rec[s], records[rec[s]].len + Overhead), "payload")
    /\ UNCHANGED <<txSeq, left, rec, sends, records, torn, env, rvars>>

\* The payload's write settled: the loop goes on.
SendMore(s) ==
    /\ spc[s] = "payload"
    /\ left[s] > 0
    /\ Chunk(s, left[s])
    /\ UNCHANGED <<sends, torn, env, rvars>>

\* send resolves, or throws when the sequence is exhausted.
SendReturns(s) ==
    /\ spc[s] = "payload"
    /\ left[s] > 0 => Exhausted(txSeq)
    /\ spc' = [spc EXCEPT ![s] = "idle"]
    /\ UNCHANGED <<txSeq, left, rec, sends, records, torn, rejections,
                   wire, env, rvars>>

SendThrows(s) ==
    /\ spc[s] = "rejected"
    /\ spc' = [spc EXCEPT ![s] = "idle"]
    /\ torn' = TRUE
    /\ UNCHANGED <<txSeq, left, rec, sends, records, rejections,
                   wire, env, rvars>>

(***************************************************************************)
(* recv.  rxOverflow is never set, so recv always reads a frame.           *)
(***************************************************************************)
Recv(r) ==
    /\ rpc[r] = "idle"
    /\ MayCall(rpc)
    /\ rpc' = [rpc EXCEPT ![r] = "header"]
    /\ got' = [got EXCEPT ![r] = <<>>]
    /\ reads' = Append(reads, <<r, HdrSize>>)
    /\ UNCHANGED <<rxSeq, received, failed, svars, wire, env>>

\* The stream serves the oldest read (in Python, _read_exact collects it).
ServeRead ==
    /\ reads # <<>>
    /\ LET r == Head(reads)[1]
           n == Head(reads)[2]
       IN  /\ Len(wire) >= n
           /\ got' = [got EXCEPT ![r] = SubSeq(wire, 1, n)]
           /\ wire' = SubSeq(wire, n + 1, Len(wire))
    /\ reads' = Tail(reads)
    /\ UNCHANGED <<rxSeq, rpc, received, failed, svars, env>>

\* The stream ended: the read is rejected, and so is recv.  _read_exact drops
\* the bytes it had; another stream may keep them for the next read.
RecvEnds ==
    /\ reads # <<>>
    /\ ~open
    /\ Len(wire) < Head(reads)[2]
    /\ reads' = Tail(reads)
    /\ rpc' = [rpc EXCEPT ![Head(reads)[1]] = "idle"]
    /\ wire' \in {wire, <<>>}
    /\ UNCHANGED <<rxSeq, got, received, failed, svars, env>>

\* What getUint32 makes of the bytes: the length written, or, when they are not
\* an intact header, any number.
HeaderValues(h) ==
    LET lengths == {n \in 1..MaxFrameSize : h = Hdr(n)}
    IN  IF lengths # {} THEN lengths ELSE 0..(MaxFrameSize + 1)

GoodLengthStrict(n) == n > 0 /\ n < MaxFrameSize    \* mutant: off by one

GoodLength(n) == n > 0 /\ n <= MaxFrameSize

RecvThrows(r) ==
    /\ rpc' = [rpc EXCEPT ![r] = "idle"]
    /\ failed' = TRUE
    /\ UNCHANGED <<rxSeq, got, reads, received, svars, wire, env>>

HasHeader(r) == rpc[r] = "header" /\ got[r] # <<>>

RecvHeader(r) ==
    /\ HasHeader(r)
    /\ \E n \in HeaderValues(got[r]) :
          GoodLength(n) /\ reads' = Append(reads, <<r, n>>)
    /\ rpc' = [rpc EXCEPT ![r] = "payload"]
    /\ got' = [got EXCEPT ![r] = <<>>]
    /\ UNCHANGED <<rxSeq, received, failed, svars, wire, env>>

RecvBadLength(r) ==
    /\ HasHeader(r)
    /\ \E n \in HeaderValues(got[r]) : ~GoodLength(n)
    /\ RecvThrows(r)

HasFrame(r) == rpc[r] = "payload" /\ got[r] # <<>>

OpensAnySeq(frame, seq, j) == frame = Body(j, records[j].len + Overhead)  \* mutant

Opens(frame, seq, j) ==
    /\ records[j].nonce = nonceFor(seq)
    /\ frame = Body(j, records[j].len + Overhead)

\* The nonce is taken after the await, so the frame that arrives first gets the
\* lower number whichever call it is for.
RecvOpens(r) ==
    /\ HasFrame(r)
    /\ ~Exhausted(rxSeq)
    /\ \E j \in 1..Len(records) :
          Opens(got[r], rxSeq, j) /\ received' = Append(received, j)
    /\ rxSeq' = rxSeq + 1
    /\ rpc' = [rpc EXCEPT ![r] = "idle"]
    /\ UNCHANGED <<got, reads, failed, svars, wire, env>>

\* decrypt throws, or the sequence is exhausted.
RecvCorrupted(r) ==
    /\ HasFrame(r)
    /\ Exhausted(rxSeq) \/ \A j \in 1..Len(records) : ~Opens(got[r], rxSeq, j)
    /\ RecvThrows(r)

\* The stream is closed, by either side.
CloseStream ==
    /\ open
    /\ open' = FALSE
    /\ UNCHANGED <<awaited, svars, wire, rvars>>

-----------------------------------------------------------------------------
SendStep(s) == SendPayload(s) \/ SendMore(s) \/ SendReturns(s) \/ SendThrows(s)

RecvStep(r) == RecvHeader(r) \/ RecvBadLength(r) \/ RecvOpens(r)
                  \/ RecvCorrupted(r)

Next ==
    \/ \E s \in Senders : Send(s) \/ SendStep(s)
    \/ \E r \in Receivers : Recv(r) \/ RecvStep(r)
    \/ ServeRead
    \/ RecvEnds
    \/ CloseStream

Spec == Init /\ [][Next]_vars

\* The event loop runs every continuation, the stream settles its reads, and
\* the receiving application keeps calling recv.
FairSpec ==
    /\ Spec
    /\ \A s \in Senders : WF_vars(SendStep(s))
    /\ \A r \in Receivers : WF_vars(RecvStep(r)) /\ WF_vars(Recv(r))
    /\ WF_vars(ServeRead)

-----------------------------------------------------------------------------
\* No nonce is used twice, although sends are neither queued nor locked: the
\* counter is read, checked and advanced before the first await.
NonceUnique ==
    \A i, j \in 1..Len(records) : records[i].nonce = records[j].nonce => i = j

\* recv returns the records in the order they were sealed, with no gap and no
\* repetition, whatever calls are in flight and wherever a write is rejected.
RecordsInOrder == \A i \in 1..Len(received) : received[i] = i

\* When callers await each call, recv meets a malformed or unauthentic frame only
\* if a send failed inside a frame: never because of where the stream was closed.
FailuresHaveCause ==
    failed /\ awaited => torn \/ \E s \in Senders : spc[s] = "rejected"

\* When callers await each call, every record sealed is received at last, unless
\* a write is rejected or the stream is closed.
RecordsArrive ==
    \A n \in 1..SeqMax :
        Len(records) >= n ~> Len(received) >= n \/ ~awaited \/ rejections > 0 \/ ~open
=============================================================================
