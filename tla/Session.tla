------------------------------ MODULE Session ------------------------------
(***************************************************************************)
(* A whole session over one raw connection: the handshake's two frames     *)
(* (handshake.go, dial.go), then the two directions of the channel at      *)
(* once, used by goroutines at both ends (channel.go, wire.go).  The raw   *)
(* connection holds Capacity bytes each way, so a Write blocks until the   *)
(* peer reads.  What frames contain, deadlines, the sequence numbers and a *)
(* Read that returns part of a record are the subject of modules Handshake *)
(* and Channel; here a Read returns a record, and a byte is                *)
(* <<frame, size, i>>: byte i, header included, of a frame whose payload   *)
(* has size bytes.                                                         *)
(*                                                                         *)
(* app says what the two applications do:                                  *)
(*   "stream"    both write, and both keep calling Read                    *)
(*   "closing"   nobody has to read, but either may close                  *)
(*   "echo"      the responder is cmd/zwing-test-server                    *)
(***************************************************************************)
EXTENDS Integers, Sequences

Ends    == {"I", "R"}
Peer(e) == IF e = "I" THEN "R" ELSE "I"

CONSTANTS
    Readers, Writers,   \* goroutines in Read and in Write, <<end, name>>
    Free,               \* the holder of a mutex nobody holds
    HdrSize, Overhead, MaxFrameSize,    \* as in module Channel
    InitSize, RespSize, \* payloads of the handshake's two frames
    WriteSizes,         \* lengths of the buffers given to Write, but in "echo"
    BufSize,            \* the test server's buffer
    Capacity,           \* bytes the raw connection holds in each direction
    Apps,               \* the applications tried
    MaxWrites           \* bound: Write calls at each end

Goroutines == Readers \cup Writers

ASSUME SessionAssumption ==
    /\ \A g \in Goroutines : g[1] \in Ends
    /\ Free \notin Goroutines
    /\ Readers \cap Writers = {}
    /\ {HdrSize, InitSize, RespSize, BufSize, Capacity} \subseteq Nat \ {0}
    /\ Overhead \in Nat
    /\ MaxFrameSize \in Nat
    /\ Overhead < MaxFrameSize
    /\ WriteSizes \subseteq Nat \ {0}
    /\ Apps \subseteq {"stream", "closing", "echo"}
    /\ MaxWrites \in Nat

VARIABLES
    app,
    phase,      \* of each end: "send", "recv", "up" or "failed"
    open,       \* the raw connection is open at each end
    pipe,       \* bytes on their way to each end
    pend,       \* bytes of a frame that raw.Write has yet to hand over
    part,       \* bytes readFrame has taken of a frame
    frames,     \* frames each end has begun to write (history)
    took,       \* frames each end has read, and for what (history)
    pc,         \* where each goroutine is: "idle", "lock", "in", or
                \* "gave up": its last call failed
    mu,         \* holders of readMu and writeMu of each end
    left,       \* bytes each Write has yet to seal
    writes      \* Write calls made at each end

raw  == <<open, pipe>>
io   == <<pend, part, frames, took>>
gors == <<pc, mu, left, writes>>
vars == <<app, phase, raw, io, gors>>

maxPlain == MaxFrameSize - Overhead

Frame(f, n) == [i \in 1..(HdrSize + n) |-> <<f, n, i>>]

\* readFrame has read the header and as many bytes as it says.
Whole(p) == Len(p) >= HdrSize /\ Len(p) = HdrSize + p[1][2]

Init ==
    /\ app \in Apps
    /\ phase = [e \in Ends |-> IF e = "I" THEN "send" ELSE "recv"]
    /\ open = [e \in Ends |-> TRUE]
    /\ pipe = [e \in Ends |-> <<>>]
    /\ pend = [e \in Ends |-> IF e = "I" THEN Frame(1, InitSize) ELSE <<>>]
    /\ part = [e \in Ends |-> <<>>]
    /\ frames = [e \in Ends |-> IF e = "I" THEN 1 ELSE 0]
    /\ took = [e \in Ends |-> <<>>]
    /\ pc = [g \in Goroutines |-> "idle"]
    /\ mu = [m \in Ends \X {"readMu", "writeMu"} |-> Free]
    /\ left = [g \in Writers |-> 0]
    /\ writes = [e \in Ends |-> 0]

(***************************************************************************)
(* The raw connection.  One byte at a time stands for any partial transfer.*)
(***************************************************************************)
\* What is written after the peer closed is lost.
RawWrite(e) ==
    /\ pend[e] # <<>>
    /\ open[e]
    /\ open[Peer(e)] => Len(pipe[Peer(e)]) < Capacity
    /\ pend' = [pend EXCEPT ![e] = Tail(@)]
    /\ pipe' = IF open[Peer(e)]
               THEN [pipe EXCEPT ![Peer(e)] = Append(@, Head(pend[e]))]
               ELSE pipe
    /\ UNCHANGED <<app, phase, open, part, frames, took, gors>>

\* io.ReadFull in readFrame, called by the handshake or by Read.
RawRead(e) ==
    /\ phase[e] = "recv" \/ \E r \in Readers : r[1] = e /\ pc[r] = "in"
    /\ open[e]
    /\ ~Whole(part[e])
    /\ pipe[e] # <<>>
    /\ part' = [part EXCEPT ![e] = Append(@, Head(pipe[e]))]
    /\ pipe' = [pipe EXCEPT ![e] = Tail(@)]
    /\ UNCHANGED <<app, phase, open, pend, frames, took, gors>>

\* raw.Close.  TCP resets a connection closed with data unread, and then the
\* peer may lose the end of what was on its way to it.
Shut(e) ==
    /\ open' = [open EXCEPT ![e] = FALSE]
    /\ LET p == pipe[Peer(e)]
       IN  \E n \in 0..Len(p) :
              /\ pipe[e] = <<>> => n = Len(p)
              /\ pipe' = [pipe EXCEPT ![e] = <<>>, ![Peer(e)] = SubSeq(p, 1, n)]

\* The peer closed and there is nothing left to read.
AtEnd(e) == ~open[e] \/ (~open[Peer(e)] /\ pipe[e] = <<>>)

WriteBroken(e) == ~open[e] \/ ~open[Peer(e)]

(***************************************************************************)
(* Frames (wire.go).                                                       *)
(***************************************************************************)
writeFrame(e, n) ==
    /\ pend' = [pend EXCEPT ![e] = Frame(frames[e] + 1, n)]
    /\ frames' = [frames EXCEPT ![e] = @ + 1]

RestReadAhead(p) == <<>>    \* mutant: a buffered reader took what followed

\* readFrame takes exactly the bytes of its frame; p stays for the next call.
Rest(p) == p

readFrame(e, by) ==
    /\ Whole(part[e])
    /\ took' = [took EXCEPT ![e] = Append(@, [bytes |-> part[e], by |-> by])]
    /\ part' = [part EXCEPT ![e] = <<>>]
    /\ pipe' = [pipe EXCEPT ![e] = Rest(@)]
    /\ UNCHANGED open

(***************************************************************************)
(* The handshake.                                                          *)
(***************************************************************************)
HandshakeSent(e) ==
    /\ phase[e] = "send"
    /\ pend[e] = <<>>
    /\ phase' = [phase EXCEPT ![e] = IF e = "I" THEN "recv" ELSE "up"]
    /\ UNCHANGED <<app, raw, io, gors>>

\* The initiator has its response: newConn.
InitiatorGot ==
    /\ phase["I"] = "recv"
    /\ readFrame("I", "handshake")
    /\ phase' = [phase EXCEPT !["I"] = "up"]
    /\ UNCHANGED <<app, pend, frames, gors>>

\* The responder has the init: it writes its response.
ResponderGot ==
    /\ phase["R"] = "recv"
    /\ readFrame("R", "handshake")
    /\ writeFrame("R", RespSize)
    /\ phase' = [phase EXCEPT !["R"] = "send"]
    /\ UNCHANGED <<app, gors>>

\* The frame fails a check, or the connection fails: the raw connection is
\* closed.
HandshakeFails(e) ==
    /\ \/ phase[e] = "recv" /\ (Whole(part[e]) \/ AtEnd(e))
       \/ phase[e] = "send" /\ pend[e] # <<>> /\ WriteBroken(e)
    /\ phase' = [phase EXCEPT ![e] = "failed"]
    /\ pend' = [pend EXCEPT ![e] = <<>>]
    /\ part' = [part EXCEPT ![e] = <<>>]
    /\ Shut(e)
    /\ UNCHANGED <<app, frames, took, gors>>

(***************************************************************************)
(* The channel.                                                            *)
(***************************************************************************)
AllIdle(e) == \A g \in Goroutines : g[1] = e => pc[g] = "idle"

\* The test server reads once, into a buffer of BufSize bytes, and writes back
\* what it read.
ServerRead   == Len(took["R"]) > 1
ServerWrote  == writes["R"] > 0
ServerFailed == \E g \in Goroutines : g[1] = "R" /\ pc[g] = "gave up"
Echoed == LET n == Len(took["R"][2].bytes) - HdrSize - Overhead
          IN  IF n < BufSize THEN n ELSE BufSize

MayRead(e) == (app = "echo" /\ e = "R") => AllIdle("R") /\ ~ServerRead

\* The lengths an application may write now.  The client of the test server
\* writes one record, of any length.
Payloads(e) ==
    IF writes[e] = MaxWrites THEN {}
    ELSE IF app # "echo" THEN WriteSizes
    ELSE IF e = "I" THEN {n \in 1..maxPlain : writes["I"] = 0}
    ELSE IF AllIdle("R") /\ ServerRead /\ ~ServerWrote THEN {Echoed} ELSE {}

ReadCall(g) ==
    /\ phase[g[1]] = "up"
    /\ pc[g] = "idle"
    /\ MayRead(g[1])
    /\ pc' = [pc EXCEPT ![g] = "lock"]
    /\ UNCHANGED <<app, phase, raw, io, mu, left, writes>>

WriteCall(g) ==
    /\ phase[g[1]] = "up"
    /\ pc[g] = "idle"
    /\ \E n \in Payloads(g[1]) : left' = [left EXCEPT ![g] = n]
    /\ writes' = [writes EXCEPT ![g[1]] = @ + 1]
    /\ pc' = [pc EXCEPT ![g] = "lock"]
    /\ UNCHANGED <<app, phase, raw, io, mu>>

OneMutex(g) == <<g[1], "readMu">>    \* mutant: Read and Write share a mutex

Mutex(g) == <<g[1], IF g \in Readers THEN "readMu" ELSE "writeMu">>

Lock(g) ==
    /\ pc[g] = "lock"
    /\ mu[Mutex(g)] = Free
    /\ mu' = [mu EXCEPT ![Mutex(g)] = g]
    /\ pc' = [pc EXCEPT ![g] = "in"]
    /\ UNCHANGED <<app, phase, raw, io, left, writes>>

\* The deferred Unlock.
Return(g, then) ==
    /\ mu' = [mu EXCEPT ![Mutex(g)] = Free]
    /\ pc' = [pc EXCEPT ![g] = then]
    /\ UNCHANGED <<app, phase, writes>>

InWrite(g) == g \in Writers /\ pc[g] = "in"
InRead(g)  == g \in Readers /\ pc[g] = "in"

\* One turn of Write's loop, up to writeFrame.
WriteChunk(g) ==
    /\ InWrite(g)
    /\ pend[g[1]] = <<>>
    /\ left[g] > 0
    /\ LET n == IF left[g] < maxPlain THEN left[g] ELSE maxPlain
       IN  /\ writeFrame(g[1], n + Overhead)
           /\ left' = [left EXCEPT ![g] = @ - n]
    /\ UNCHANGED <<app, phase, raw, part, took, pc, mu, writes>>

WriteReturns(g) ==
    /\ InWrite(g)
    /\ pend[g[1]] = <<>>
    /\ left[g] = 0
    /\ Return(g, "idle")
    /\ UNCHANGED <<raw, io, left>>

WriteFails(g) ==
    /\ InWrite(g)
    /\ pend[g[1]] # <<>>
    /\ WriteBroken(g[1])
    /\ pend' = [pend EXCEPT ![g[1]] = <<>>]
    /\ left' = [left EXCEPT ![g] = 0]
    /\ Return(g, "gave up")
    /\ UNCHANGED <<raw, part, frames, took>>

ReadReturns(g) ==
    /\ InRead(g)
    /\ readFrame(g[1], "Read")
    /\ Return(g, "idle")
    /\ UNCHANGED <<pend, frames, left>>

ReadFails(g) ==
    /\ InRead(g)
    /\ ~Whole(part[g[1]])
    /\ AtEnd(g[1])
    /\ part' = [part EXCEPT ![g[1]] = <<>>]
    /\ Return(g, "gave up")
    /\ UNCHANGED <<raw, pend, frames, took, left>>

MayCloseEarly(e) ==    \* mutant: the test server does not wait for its Write
    app = "closing" \/ (app = "echo" /\ e = "R" /\ (ServerWrote \/ ServerFailed))

\* An application that closes at any time, or main returning at its end.
MayClose(e) ==
    \/ app = "closing"
    \/ app = "echo" /\ e = "R" /\ ServerWrote /\ AllIdle("R")
    \/ app = "echo" /\ e = "R" /\ ServerFailed

\* mutant: Close waits for the Read in progress
CloseLocked(e) ==
    /\ phase[e] = "up"
    /\ open[e]
    /\ MayClose(e)
    /\ mu[<<e, "readMu">>] = Free
    /\ Shut(e)
    /\ UNCHANGED <<app, phase, io, gors>>

\* Close takes neither mutex.
Close(e) ==
    /\ phase[e] = "up"
    /\ open[e]
    /\ MayClose(e)
    /\ Shut(e)
    /\ UNCHANGED <<app, phase, io, gors>>

-----------------------------------------------------------------------------
HandshakeStep(e) ==
    \/ HandshakeSent(e)
    \/ e = "I" /\ InitiatorGot
    \/ e = "R" /\ ResponderGot
    \/ HandshakeFails(e)

CallStep(g) ==
    \/ WriteChunk(g)
    \/ WriteReturns(g)
    \/ WriteFails(g)
    \/ ReadReturns(g)
    \/ ReadFails(g)

Next ==
    \/ \E e \in Ends : RawWrite(e) \/ RawRead(e) \/ HandshakeStep(e) \/ Close(e)
    \/ \E g \in Goroutines : Lock(g) \/ CallStep(g)
    \/ \E r \in Readers : ReadCall(r)
    \/ \E w \in Writers : WriteCall(w)

Spec == Init /\ [][Next]_vars

\* What the runtime and the raw connection do as soon as they can, and the calls
\* the applications owe: to Read again unless app is "closing", and there the
\* initiator to close at last; the test server and its client to do their part.
Owed ==
    \/ \E e \in Ends : RawWrite(e) \/ RawRead(e) \/ HandshakeStep(e)
    \/ \E g \in Goroutines : Lock(g) \/ CallStep(g)
    \/ \E r \in Readers : app # "closing" /\ ReadCall(r)
    \/ \E w \in Writers : app = "echo" /\ WriteCall(w)
    \/ Close("I")
    \/ app = "echo" /\ Close("R")

\* No part can take steps for ever, so it is enough that the session as a whole
\* does not stop while something is owed.
FairSpec == Spec /\ WF_vars(Owed)

-----------------------------------------------------------------------------
\* Each end reads the frames its peer wrote, whole and in order, the first one
\* in the handshake and every other one in Read, and starts each at its header:
\* what the peer writes straight behind its handshake frame is not swallowed
\* with it.
FramesInOrder ==
    \A e \in Ends :
        /\ \A k \in 1..Len(took[e]) :
              LET t == took[e][k]
              IN  /\ t.bytes = Frame(k, t.bytes[1][2])
                  /\ t.by = IF k = 1 THEN "handshake" ELSE "Read"
        /\ \A i \in 1..Len(part[e]) :
              part[e][i][1] = Len(took[e]) + 1 /\ part[e][i][3] = i

Calling == {"lock", "in"}

\* Every Write returns, although both ends write more than the raw connection
\* holds and wait for each other to read: Read does not need the mutex a blocked
\* Write holds.  When nobody reads, a Close at either end releases the Write.
EveryWriteReturns == \A w \in Writers : pc[w] \in Calling ~> pc[w] \notin Calling

\* Close at one end, which takes no mutex, makes every Read in progress at both
\* ends return, those that wait for the mutex behind a blocked one included.
EveryReadReturns ==
    \A r \in Readers :
        (app = "closing" /\ pc[r] \in Calling) ~> pc[r] \notin Calling

\* The payload of a record, as Read returns it.
PayloadSize(t) == Len(t.bytes) - HdrSize - Overhead

\* A client of the test server gets an answer, although the server closes the
\* connection as soon as its Write has returned: its whole payload if that fits
\* the server's buffer, and the first BufSize bytes of it if not, as the server
\* calls Read once.
EchoReturns ==
    (app = "echo" /\ phase["I"] = "up") ~>
        /\ ServerRead
        /\ Len(took["I"]) = 2
        /\ LET n == PayloadSize(took["R"][2])
           IN  PayloadSize(took["I"][2]) = IF n <= BufSize THEN n ELSE BufSize
=============================================================================
